---- MODULE Spec2Model ----
(***************************************************************************)
(* A model of the bipartite-graph matching library: BipartiteGraph / Node  *)
(* / Edge, GraphProcessing, Dijkstra, Preprocessing / AssignmentProblem,   *)
(* MaximumCardinalityMatching, MinimumVertexCover, DepthFirstTraversal,    *)
(* KuhnMunkres and EdmondsKarp.                                            *)
(*                                                                         *)
(* Graph values.  The algorithms work on graphs they have deep-copied, so  *)
(* a graph is modelled by its value: the node names of each side, the      *)
(* attribute registry of every node, and the edge objects wired into the   *)
(* nodes (source name, terminal name, weight, attribute registry).  The    *)
(* field "shared" records whether the Node and Edge objects of the value   *)
(* are the caller's own objects (no copy was taken), in which case every   *)
(* mutation of them is a mutation of the caller's graph.                   *)
(*                                                                         *)
(* Sets.  Node.__hash__ and Edge.__hash__ are hash(str(self)); the model   *)
(* takes every hash to be computed (it does not model the evaluation of    *)
(* __str__) and to agree with __eq__, so a Python set of nodes holds one   *)
(* node per name and a set of edges one edge per (weight, attributes,      *)
(* source name, terminal name).  A name is the name of one Node object     *)
(* ("the name field must be unique across all nodes", Node.__init__), so   *)
(* a node is identified by its name.                                       *)
(*                                                                         *)
(* Iteration orders of sets and dictionaries are arbitrary: wherever the   *)
(* result of the code depends on one, the model takes every order.         *)
(***************************************************************************)
EXTENDS Integers, FiniteSets, Sequences, TLC

(***************************************************************************)
(* Bounds of the model.                                                    *)
(***************************************************************************)
MaxLeft == 3
MaxRight == 3
MaxWeight == 1
MaxNegWeight == 1
MaxPool == 2
MaxKeys == 4

(***************************************************************************)
(* Program constants.                                                      *)
(***************************************************************************)
DUMMY_EDGE_WEIGHT == 0
DUMMY_NODE_NAME == "Dummy Node"
MATCHING_ATTRIBUTE == "Matched"
VISITED_ATTRIBUTE == "Visited"
LABELING_ATTRIBUTE == "Label"
SOURCE_NODE == "Source Node"
SINK_NODE == "Sink Node"

\* float("inf"), written as a number no distance takes (weights are >= 0), and None
Inf == -1
None == "None"

(***************************************************************************)
(* Names.  The caller's node names are taken from two pools; a dummy node  *)
(* is named DUMMY_NODE_NAME + " " + str(random.randint(0, maxsize)), which *)
(* the model writes as one of DummyPool, a fresh one for each dummy node.  *)
(***************************************************************************)
LeftPool == <<"A", "B", "C", "D", "E">>
RightPool == <<"X", "Y", "Z", "U", "V">>
DummyPool == <<"Dummy Node 1", "Dummy Node 2", "Dummy Node 3", "Dummy Node 4", "Dummy Node 5">>
DummyNames == {DummyPool[i] : i \in 1..Len(DummyPool)}

\* DUMMY_NODE_NAME in name (a substring test)
ContainsDummyName(name) == name \in DummyNames

Weights == (0 - MaxNegWeight)..MaxWeight

(***************************************************************************)
(* Node, Edge, BipartiteGraph as values.                                   *)
(***************************************************************************)
NoAttributes == <<>>

Edge(weight, attributes, source_node, terminal_node) ==
    [s |-> source_node, t |-> terminal_node, w |-> weight, attr |-> attributes]

set_attribute_value(attributes, attribute_key, attribute_value) ==
    (attribute_key :> attribute_value) @@ attributes

Nodes(G) == G.left \cup G.right

get_outgoing_edges(G, n) == {e \in G.edges : e.s = n}

get_incoming_edges(G, n) == {e \in G.edges : e.t = n}

IncidentEdges(G, n) == get_outgoing_edges(G, n) \cup get_incoming_edges(G, n)

\* the edges of the left nodes, outgoing and incoming
get_edges(G) ==
    UNION {get_outgoing_edges(G, n) : n \in G.left} \cup UNION {get_incoming_edges(G, n) : n \in G.left}

is_balanced(G) == Cardinality(G.left) = Cardinality(G.right)

produce_duplicate_disconnected_node(G, n) == G.nattr[n]

\* a copy that walks the outgoing edges of the left nodes only
LeftOutgoingOnly(G, predicate) ==
    [left |-> G.left,
     right |-> G.right,
     nattr |-> [n \in Nodes(G) |-> produce_duplicate_disconnected_node(G, n)],
     edges |-> {Edge(e.w, e.attr, e.s, e.t) :
                    e \in {o \in UNION {get_outgoing_edges(G, n) : n \in G.left} : predicate[o]}},
     shared |-> FALSE]

\* A new graph of new Node and Edge objects: every node, and the outgoing
\* edges that satisfy the predicate (the lambda, as a function of the edge).
extract_edge_induced_subgraph(G, predicate) ==
    [left |-> G.left,
     right |-> G.right,
     nattr |-> [n \in Nodes(G) |-> produce_duplicate_disconnected_node(G, n)],
     edges |-> {Edge(e.w, e.attr, e.s, e.t) :
                    e \in {o \in UNION {get_outgoing_edges(G, n) : n \in Nodes(G)} : predicate[o]}},
     shared |-> FALSE]

\* a predicate that copies no edge
NeverAnEdge(e) == FALSE

AnyEdge(e) == TRUE

\* a copy that is the graph itself: the same Node and Edge objects
SameObjects(G) == G

deepcopy(G) == extract_edge_induced_subgraph(G, [e \in G.edges |-> AnyEdge(e)])

add_node_attributes(G, attribute_key, attribute_value) ==
    LET G_prime == deepcopy(G)
    IN [G_prime EXCEPT !.nattr =
            [n \in Nodes(G_prime) |-> set_attribute_value(G_prime.nattr[n], attribute_key, attribute_value)]]

add_edge_attributes(G, attribute_key, attribute_value) ==
    LET G_prime == deepcopy(G)
    IN [G_prime EXCEPT !.edges =
            {IF e \in get_edges(G_prime)
                THEN [e EXCEPT !.attr = set_attribute_value(e.attr, attribute_key, attribute_value)]
                ELSE e : e \in G_prime.edges}]

(***************************************************************************)
(* The mutators of BipartiteGraph and __check_validity.  A mutator changes *)
(* the graph first and checks it afterwards, so the graph a raising call   *)
(* leaves behind is the changed one.                                       *)
(***************************************************************************)
is_bipartite(G) ==
    /\ G.left \cap G.right = {}
    /\ \A node \in G.left :
         /\ \A edge \in get_outgoing_edges(G, node) : ~ (edge.s \in G.right \/ edge.t \in G.left)
         /\ \A edge \in get_incoming_edges(G, node) : ~ (edge.s \in G.left \/ edge.t \in G.right)
    /\ \A node \in G.right :
         /\ \A edge \in get_incoming_edges(G, node) : ~ (edge.s \in G.right \/ edge.t \in G.left)
         /\ \A edge \in get_outgoing_edges(G, node) : ~ (edge.s \in G.left \/ edge.t \in G.right)

\* the number of names of the union against the sizes of the two sets
has_conflicting_node_names(G) ==
    Cardinality(G.left \cup G.right) # Cardinality(G.left) + Cardinality(G.right)

\* BipartiteGraph.get_edges is a list: an edge that is both an outgoing and
\* an incoming edge of left nodes is in it twice
EdgeListLength(G) ==
    Cardinality({<<n, e>> \in G.left \X G.edges : e.s = n})
        + Cardinality({<<n, e>> \in G.left \X G.edges : e.t = n})

\* a constant answer: the check for parallel edges is skipped
NeverMultiple(G) == FALSE

has_multiple_edges(G) ==
    EdgeListLength(G) # Cardinality({<<e.s, e.t>> : e \in get_edges(G)})

\* the message of the exception __check_validity raises, or None
check_validity(G) ==
    IF ~ is_bipartite(G) THEN "Error: Graph is not bipartite"
    ELSE IF has_conflicting_node_names(G) THEN "Error: Nodes have conflicting names"
    ELSE IF has_multiple_edges(G) THEN "Error: Multiple edges exist"
    ELSE None

WithNode(G, node) ==
    [n \in Nodes(G) \cup {node} |-> IF n \in Nodes(G) THEN G.nattr[n] ELSE NoAttributes]

\* the graph after self.left_nodeset.add(node)
add_left_node(G, node) == [G EXCEPT !.left = G.left \cup {node}, !.nattr = WithNode(G, node)]

\* the graph after self.right_nodeset.add(node)
add_right_node(G, node) == [G EXCEPT !.right = G.right \cup {node}, !.nattr = WithNode(G, node)]

\* the graph after the Edge object is added to the edge sets of its ends
Wired(G, weight, attributes, source_node, terminal_node) ==
    [G EXCEPT !.edges = G.edges \cup {Edge(weight, attributes, source_node, terminal_node)}]

\* The steps of add_edge: the graph each step leaves, and what the check
\* after it raises.  A step that is skipped or not reached raises nothing.
AddEdgeSteps(G, weight, attributes, source_node, terminal_node) ==
    LET adds_left == source_node \notin G.left
        G1 == IF adds_left THEN add_left_node(G, source_node) ELSE G
        e1 == IF adds_left THEN check_validity(G1) ELSE None
        adds_right == terminal_node \notin G1.right
        G2 == IF adds_right THEN add_right_node(G1, terminal_node) ELSE G1
        e2 == IF adds_right THEN check_validity(G2) ELSE None
        G3 == Wired(G2, weight, attributes, source_node, terminal_node)
        e3 == check_validity(G3)
    IN IF e1 # None THEN [graph |-> G1, error |-> e1]
       ELSE IF e2 # None THEN [graph |-> G2, error |-> e2]
       ELSE [graph |-> G3, error |-> e3]

\* the graph add_edge leaves
add_edge(G, weight, attributes, source_node, terminal_node) ==
    AddEdgeSteps(G, weight, attributes, source_node, terminal_node).graph

(***************************************************************************)
(* GraphProcessing.bipartite_to_dictionary_form: node name -> (terminal    *)
(* name -> weight).                                                        *)
(***************************************************************************)
bipartite_to_dictionary_form(G) ==
    [n \in Nodes(G) |->
        [t \in {e.t : e \in get_outgoing_edges(G, n)} |->
            (CHOOSE e \in get_outgoing_edges(G, n) : e.t = t).w]]

(***************************************************************************)
(* Dijkstra.  dist and prev_node are functions on the keys of the graph;   *)
(* Q is kept as the set of queued nodes.  __determine_min_dist never       *)
(* updates current_dist, so it returns the last node of Q whose distance   *)
(* is finite, and Q[0] when there is none.  Q is in the key order of the   *)
(* dictionary, which is the arbitrary iteration order of the node set it   *)
(* was built from: each node removed is the last of the finite nodes then  *)
(* queued, every node removed before it stands after it in Q, so any       *)
(* sequence of choices among the finite queued nodes is the run of some    *)
(* order, and the model takes them all.  A node of infinite distance       *)
(* relaxes nothing (inf + w < dist is false).                              *)
(***************************************************************************)
Plus(d, w) == IF d = Inf THEN Inf ELSE d + w

Less(a, b) == IF a = Inf THEN FALSE ELSE IF b = Inf THEN TRUE ELSE a < b

determine_min_dist(Q, dist) == {n \in Q : Less(dist[n], Inf)}

Improved(graph, st, c) ==
    {n \in DOMAIN graph[c] : Less(Plus(st.dist[c], graph[c][n]), st.dist[n])}

Relax(graph, st, c) ==
    LET better == Improved(graph, st, c)
    IN [dist |-> [n \in DOMAIN st.dist |->
                    IF n \in better THEN Plus(st.dist[c], graph[c][n]) ELSE st.dist[n]],
        prev |-> [n \in DOMAIN st.prev |-> IF n \in better THEN c ELSE st.prev[n]],
        Q |-> st.Q \ {c}]

\* A queued node whose removal changes nothing now or later: it improves no
\* neighbour, and no other queued node can lower its distance (weights >= 0).
Settled(graph, st, c) ==
    /\ Improved(graph, st, c) = {}
    /\ \A n \in determine_min_dist(st.Q, st.dist) : ~ Less(st.dist[n], st.dist[c])

\* the queued nodes whose removal is a step that matters
Live(graph, st) == {c \in determine_min_dist(st.Q, st.dist) : ~ Settled(graph, st, c)}

\* The while loop, run over every choice at once: running holds the states
\* (dist, prev_node, Q) some sequence of choices has reached, finished the
\* results of the sequences that have ended.
RECURSIVE one_to_many_loop(_, _, _)
one_to_many_loop(graph, running, finished) ==
    IF running = {} THEN finished
    ELSE LET ended == {st \in running : Live(graph, st) = {}}
         IN one_to_many_loop(graph,
                UNION {{Relax(graph, st, c) : c \in Live(graph, st)} : st \in running \ ended},
                finished \cup {[dist |-> st.dist, prev |-> st.prev] : st \in ended})

\* the set of (dist, prev_node) results over the key orders of graph
one_to_many(graph, source_node) ==
    one_to_many_loop(graph,
        {[dist |-> [n \in DOMAIN graph |-> IF n = source_node THEN 0 ELSE Inf],
          prev |-> [n \in DOMAIN graph |-> None],
          Q |-> DOMAIN graph]},
        {})

\* The traceback of compute_augmenting_path: from sink back to source along
\* prev_node; a node that is no key of prev_node (None is none) clears the path.
RECURSIVE Traceback(_, _, _, _)
Traceback(prev_node, source, current_node, augmenting_path) ==
    IF current_node = source THEN augmenting_path
    ELSE IF current_node \notin DOMAIN prev_node THEN <<>>
    ELSE Traceback(prev_node, source, prev_node[current_node],
                   Append(augmenting_path, <<prev_node[current_node], current_node>>))

Reversed(seq) == [i \in 1..Len(seq) |-> seq[Len(seq) + 1 - i]]

(***************************************************************************)
(* Preprocessing / AssignmentProblem (the two classes hold the same code). *)
(***************************************************************************)
HasEdges(G, n) == Cardinality(IncidentEdges(G, n)) # 0

\* The BipartiteGraph built from the connected Node objects of G themselves:
\* no node and no edge is copied.
remove_disconnected_nodes(G) ==
    [left |-> {n \in G.left : HasEdges(G, n)},
     right |-> {n \in G.right : HasEdges(G, n)},
     nattr |-> [n \in {m \in Nodes(G) : HasEdges(G, m)} |-> G.nattr[n]],
     edges |-> G.edges,
     shared |-> G.shared]

RECURSIVE AddDummyEdges(_, _, _, _)
AddDummyEdges(G, dummy_node, complete_nodeset, left_deficiency) ==
    IF complete_nodeset = {} THEN G
    ELSE LET node == CHOOSE n \in complete_nodeset : TRUE
         IN AddDummyEdges(
                IF left_deficiency
                    THEN add_edge(G, DUMMY_EDGE_WEIGHT, NoAttributes, dummy_node, node)
                    ELSE add_edge(G, DUMMY_EDGE_WEIGHT, NoAttributes, node, dummy_node),
                dummy_node, complete_nodeset \ {node}, left_deficiency)

\* an if in place of the while: one dummy node at most
OneDummy(G, complete_nodeset, left_deficiency, k) ==
    IF is_balanced(G) THEN G
    ELSE AddDummyEdges(G, DummyPool[k], complete_nodeset, left_deficiency)

RECURSIVE BalanceLoop(_, _, _, _)
BalanceLoop(G, complete_nodeset, left_deficiency, k) ==
    IF is_balanced(G) THEN G
    ELSE BalanceLoop(AddDummyEdges(G, DummyPool[k], complete_nodeset, left_deficiency),
                     complete_nodeset, left_deficiency, k + 1)

construct_balanced_equivalent(G) ==
    LET G_prime == deepcopy(G)
        left_more == Cardinality(G_prime.left) > Cardinality(G_prime.right)
        complete_nodeset == IF left_more THEN G_prime.left ELSE G_prime.right
        deficient_nodeset == IF left_more THEN G_prime.right ELSE G_prime.left
        left_deficiency == Cardinality(deficient_nodeset) = Cardinality(G_prime.left)
    IN BalanceLoop(G_prime, complete_nodeset, left_deficiency, 1)

\* the edges update_func is invoked on: for a pair of the matching, the
\* outgoing edges of the left node of that name that lead to the right node
Matched(G, matching, e) ==
    /\ <<e.s, e.t>> \in matching
    /\ e.s \in G.left
    /\ e.t \in G.right

\* search_node_names(...).pop() on a name the side does not hold
ModifyRaises(G, matching) ==
    \E p \in matching : p[1] \notin G.left \/ p[2] \notin G.right

\* an update function that leaves the matched edge as it is
KeepDirection(e) == e

reverse_matched_directed_edge(e) == [e EXCEPT !.s = e.t, !.t = e.s]

\* modify_graph(G, matching, reverse_matched_directed_edge)
ReverseMatched(G, matching) ==
    LET G_prime == deepcopy(G)
    IN [G_prime EXCEPT !.edges =
            {IF Matched(G_prime, matching, e) THEN reverse_matched_directed_edge(e) ELSE e :
                e \in G_prime.edges}]

\* modify_graph(G, matching, update_matched_attributes)
UpdateMatched(G, matching) ==
    LET G_prime == deepcopy(G)
        hit == {e \in G_prime.edges : Matched(G_prime, matching, e)}
        ends == {e.s : e \in hit} \cup {e.t : e \in hit}
    IN [G_prime EXCEPT
            !.nattr = [n \in Nodes(G_prime) |->
                IF n \in ends THEN set_attribute_value(G_prime.nattr[n], MATCHING_ATTRIBUTE, TRUE)
                ELSE G_prime.nattr[n]],
            !.edges = {IF e \in hit
                          THEN [e EXCEPT !.attr = set_attribute_value(e.attr, MATCHING_ATTRIBUTE, TRUE)]
                          ELSE e : e \in G_prime.edges}]

\* the pair at an odd index (from 0) is turned around
\* the pairs are left in the direction the path runs through them
KeepOrientation(augmenting_path) == augmenting_path

postprocess_augmenting_path(augmenting_path) ==
    [i \in 1..Len(augmenting_path) |->
        IF (i - 1) % 2 = 1 THEN <<augmenting_path[i][2], augmenting_path[i][1]>>
        ELSE augmenting_path[i]]

\* a postprocessing that strips nothing
KeepEveryPair(maximum_matching) == maximum_matching

postprocess_maximum_matching(maximum_matching) ==
    {p \in maximum_matching : ~ ContainsDummyName(p[1]) /\ ~ ContainsDummyName(p[2])}

\* a predicate that takes every edge for matched
EveryEdge(maximum_matching, e) == TRUE

InMatching(maximum_matching, e) == <<e.s, e.t>> \in maximum_matching

is_perfect(G, maximum_matching) ==
    LET G_prime == extract_edge_induced_subgraph(
                       G, [e \in G.edges |-> InMatching(maximum_matching, e)])
    IN Cardinality({n \in Nodes(G_prime) : Cardinality(IncidentEdges(G_prime, n)) = 1})
           = Cardinality(Nodes(G_prime))

\* an augmentation that adds the pairs of the path and removes none
PlainUnion(a, b) == a \cup b

SymmetricDifference(a, b) == (a \ b) \cup (b \ a)

Range(seq) == {seq[i] : i \in 1..Len(seq)}

(***************************************************************************)
(* MaximumCardinalityMatching.                                             *)
(***************************************************************************)
SetWeights(G, weight) ==
    [G EXCEPT !.edges = {IF e \in get_edges(G) THEN [e EXCEPT !.w = weight] ELSE e : e \in G.edges}]

\* the source joined to every left node, matched or not
SourceToEveryLeft(G, matching) ==
    LET G_dict == bipartite_to_dictionary_form(G)
        free_right == {n \in G.right : n \notin {p[2] : p \in matching}}
    IN [n \in Nodes(G) \cup {SOURCE_NODE, SINK_NODE} |->
            IF n = SOURCE_NODE THEN [t \in G.left |-> DUMMY_EDGE_WEIGHT]
            ELSE IF n = SINK_NODE THEN <<>>
            ELSE IF n \in free_right
                 THEN (SINK_NODE :> DUMMY_EDGE_WEIGHT) @@ G_dict[n]
                 ELSE G_dict[n]]

add_source_sink_nodes(G, matching) ==
    LET G_dict == bipartite_to_dictionary_form(G)
        matched_source_node_names == {p[1] : p \in matching}
        matched_terminal_node_names == {p[2] : p \in matching}
        free_left == {n \in G.left : n \notin matched_source_node_names}
        free_right == {n \in G.right : n \notin matched_terminal_node_names}
    IN [n \in Nodes(G) \cup {SOURCE_NODE, SINK_NODE} |->
            IF n = SOURCE_NODE THEN [t \in free_left |-> DUMMY_EDGE_WEIGHT]
            ELSE IF n = SINK_NODE THEN <<>>
            ELSE IF n \in free_right
                 THEN (SINK_NODE :> DUMMY_EDGE_WEIGHT) @@ G_dict[n]
                 ELSE G_dict[n]]

Clip(path) == IF Len(path) <= 2 THEN <<>> ELSE SubSeq(path, 2, Len(path) - 1)

\* the set of paths compute_augmenting_path can return
compute_augmenting_path(G, matching) ==
    LET G_prime == SetWeights(ReverseMatched(G, matching), DUMMY_EDGE_WEIGHT)
        G_prime_dict == add_source_sink_nodes(G_prime, matching)
    IN {Reversed(Clip(Traceback(r.prev, SOURCE_NODE, SINK_NODE, <<>>))) :
            r \in one_to_many(G_prime_dict, SOURCE_NODE)}

(***************************************************************************)
(* DepthFirstTraversal and MinimumVertexCover.                             *)
(***************************************************************************)
\* __depth_first_search_recursive_helper: the names whose "Visited" is True
\* afterwards, given those that were True before
RECURSIVE depth_first_search_recursive_helper(_, _, _)
RECURSIVE VisitNeighbors(_, _, _)
depth_first_search_recursive_helper(G, initial_node, visited) ==
    VisitNeighbors(G, {e.t : e \in get_outgoing_edges(G, initial_node)}, visited \cup {initial_node})

VisitNeighbors(G, neighbors, visited) ==
    IF neighbors = {} THEN visited
    ELSE LET neighbor == CHOOSE n \in neighbors : TRUE
         IN VisitNeighbors(G, neighbors \ {neighbor},
                IF neighbor \notin visited
                    THEN depth_first_search_recursive_helper(G, neighbor, visited)
                    ELSE visited)

\* DepthFirstTraversal.apply: a copy of G whose nodes carry "Visited"
DepthFirstTraversal(G, initial_node) ==
    LET G_prime == add_node_attributes(G, VISITED_ATTRIBUTE, FALSE)
        seen == depth_first_search_recursive_helper(G_prime, initial_node, {})
    IN [G_prime EXCEPT !.nattr =
            [n \in Nodes(G_prime) |->
                IF n \in seen THEN set_attribute_value(G_prime.nattr[n], VISITED_ATTRIBUTE, TRUE)
                ELSE G_prime.nattr[n]]]

update_L(G, L) == L \cup {n \in Nodes(G) : G.nattr[n][VISITED_ATTRIBUTE]}

MinimumVertexCover(G, maximum_matching) ==
    LET G_prime == ReverseMatched(G, maximum_matching)
        matched_left_node_names == {p[1] : p \in maximum_matching}
        exposed == {n \in G_prime.left : n \notin matched_left_node_names}
        L == UNION {update_L(DepthFirstTraversal(G_prime, n), {}) : n \in exposed}
    IN (G.left \ L) \cup (G.right \cap L)

(***************************************************************************)
(* KuhnMunkres.                                                            *)
(***************************************************************************)
\* the largest element instead of the smallest
Largest(S) == CHOOSE x \in S : \A y \in S : x >= y

MinOf(S) == CHOOSE x \in S : \A y \in S : x <= y

\* __linear_translation over the outgoing edges of every left node, then over
\* the incoming edges of every right node
RowReduced(G) ==
    [G EXCEPT !.edges =
        {IF e.s \in G.left
            THEN [e EXCEPT !.w = e.w - MinOf({o.w : o \in get_outgoing_edges(G, e.s)})]
            ELSE e : e \in G.edges}]

ColumnReduced(G) ==
    [G EXCEPT !.edges =
        {IF e.t \in G.right
            THEN [e EXCEPT !.w = e.w - MinOf({o.w : o \in get_incoming_edges(G, e.t)})]
            ELSE e : e \in G.edges}]

preprocess_weights(G) == ColumnReduced(RowReduced(deepcopy(G)))

\* a subgraph that takes the edges of reduced weight 1 for tight as well
WeightAtMostOne(e) == e.w <= 1

ZeroWeight(e) == e.w = 0

extract_zero_weight_subgraph(G) ==
    extract_edge_induced_subgraph(G, [e \in G.edges |-> ZeroWeight(e)])

Uncovered(G, minimum_vertex_cover) ==
    {e \in get_edges(G) : e.s \notin minimum_vertex_cover /\ e.t \notin minimum_vertex_cover}

\* min() of an empty set raises ValueError
AdjustRaises(G, minimum_vertex_cover) == Uncovered(G, minimum_vertex_cover) = {}

\* the minimum is taken over every edge
DeltaOverEveryEdge(G, minimum_vertex_cover) == MinOf({e.w : e \in get_edges(G)})

Delta(G, minimum_vertex_cover) == MinOf({e.w : e \in Uncovered(G, minimum_vertex_cover)})

\* delta is taken from every edge whose source is not covered
SubtractByRow(G, minimum_vertex_cover) ==
    LET G_prime == deepcopy(G)
        delta == Delta(G_prime, minimum_vertex_cover)
    IN [G_prime EXCEPT !.edges =
        {IF e.s \notin minimum_vertex_cover
            THEN [e EXCEPT !.w = e.w - delta]
            ELSE e : e \in G_prime.edges}]

\* delta is added to every edge that has a covered end
AddToEveryCovered(G, minimum_vertex_cover) ==
    LET G_prime == deepcopy(G)
        delta == Delta(G_prime, minimum_vertex_cover)
    IN [G_prime EXCEPT !.edges =
        {IF e.s \in minimum_vertex_cover \/ e.t \in minimum_vertex_cover
            THEN [e EXCEPT !.w = e.w + delta]
            ELSE [e EXCEPT !.w = e.w - delta] : e \in G_prime.edges}]

adjust_weights(G, minimum_vertex_cover) ==
    LET G_prime == deepcopy(G)
        delta == Delta(G_prime, minimum_vertex_cover)
    IN [G_prime EXCEPT !.edges =
        {IF e \notin get_edges(G_prime) THEN e
         ELSE IF e.s \in minimum_vertex_cover /\ e.t \in minimum_vertex_cover
            THEN [e EXCEPT !.w = e.w + delta]
         ELSE IF e.s \notin minimum_vertex_cover /\ e.t \notin minimum_vertex_cover
            THEN [e EXCEPT !.w = e.w - delta]
         ELSE e : e \in G_prime.edges}]

(***************************************************************************)
(* EdmondsKarp.                                                            *)
(***************************************************************************)
Label(G, n) == G.nattr[n][LABELING_ATTRIBUTE]

check_labeling_feasibility(G, e) == Label(G, e.s) + Label(G, e.t) >= e.w

SetLabel(G, n, value) ==
    [G EXCEPT !.nattr[n] = set_attribute_value(G.nattr[n], LABELING_ATTRIBUTE, value)]

\* the body of the loop of __create_initial_vertex_labeling
LabelEdge(G, edge) ==
    IF ~ check_labeling_feasibility(G, edge)
        THEN SetLabel(SetLabel(G, edge.s, edge.w), edge.t, 0)
        ELSE G

\* the loop of __create_initial_vertex_labeling over the edges still to visit
RECURSIVE LabelEdges(_, _)
LabelEdges(G, todo) ==
    IF todo = {} THEN G
    ELSE LET edge == CHOOSE e \in todo : TRUE
         IN LabelEdges(LabelEdge(G, edge), todo \ {edge})

create_initial_vertex_labeling(G) ==
    LET G_prime == add_node_attributes(G, LABELING_ATTRIBUTE, 0)
    IN LabelEdges(G_prime, get_edges(G_prime))

\* the predicate reads the labels of the graph the edge belongs to
construct_equality_subgraph(G) ==
    extract_edge_induced_subgraph(
        G, [e \in G.edges |-> Label(G, e.s) + Label(G, e.t) = e.w])

\* any left node is taken for exposed
AnyLeftNode(G, matching) == G.left

\* the left nodes no pair of the matching starts from
select_arbitrary_exposed_vertex(G, matching) ==
    IF matching = {} THEN G.left
    ELSE {n \in G.left : n \notin {p[1] : p \in matching}}

compute_joint_neighborhood(G, nodeset) ==
    {e.t : e \in UNION {get_outgoing_edges(G, n) : n \in nodeset}}

Slack(G, S, T) ==
    {Label(G, e.s) + Label(G, e.t) - e.w :
        e \in {o \in get_edges(G) : o.s \in S /\ o.t \in G.right \ T}}

\* min() of an empty set raises ValueError
RelabelRaises(G, S, T) == Slack(G, S, T) = {}

\* the minimum is taken over the edges from S to every right node, T included
DeltaOverEveryRight(G, S, T) ==
    MinOf({Label(G, e.s) + Label(G, e.t) - e.w : e \in {o \in get_edges(G) : o.s \in S}})

compute_delta(G, S, T) == MinOf(Slack(G, S, T))

\* the labels are left as they are
LabelsKept(G, S, T) == G

adjust_labeling(G, S, T) ==
    LET G_prime == deepcopy(G)
        delta == compute_delta(G_prime, S, T)
    IN [G_prime EXCEPT !.nattr =
        [n \in Nodes(G_prime) |->
            IF n \in S
                THEN set_attribute_value(G_prime.nattr[n], LABELING_ATTRIBUTE, Label(G_prime, n) - delta)
            ELSE IF n \in T
                THEN set_attribute_value(G_prime.nattr[n], LABELING_ATTRIBUTE, Label(G_prime, n) + delta)
            ELSE G_prime.nattr[n]]]

\* the set of paths EdmondsKarp.__compute_augmenting_path can return
ek_compute_augmenting_path(G, matching, source, sink) ==
    LET G_prime == SetWeights(ReverseMatched(G, matching), DUMMY_EDGE_WEIGHT)
        G_prime_dict == bipartite_to_dictionary_form(G_prime)
    IN {Reversed(Traceback(r.prev, source, sink, <<>>)) : r \in one_to_many(G_prime_dict, source)}

(***************************************************************************)
(* The state: one call of an entry point on the caller's graph.            *)
(*   alg     the entry point called                                        *)
(*   pc      the position in it                                            *)
(*   input   the caller's graph when the call started                      *)
(*   caller  the caller's graph now                                        *)
(*   W       G_prime of KuhnMunkres.apply and EdmondsKarp.apply            *)
(*   sub     G0_subgraph, G_equality_subgraph                              *)
(*   mcmG    G_prime of MaximumCardinalityMatching.apply                   *)
(*   M       maximum_matching, current_matching                            *)
(*   cover   minimum_vertex_cover                                          *)
(*   root, S, T, N   the alternating tree of EdmondsKarp.apply and its     *)
(*           joint_neighborhood                                            *)
(*   result  the value returned                                            *)
(*   error   the exception raised                                          *)
(***************************************************************************)
VARIABLES alg, pc, input, caller, W, sub, mcmG, M, cover, root, S, T, N, result, error

vars == <<alg, pc, input, caller, W, sub, mcmG, M, cover, root, S, T, N, result, error>>

EmptyGraph == [left |-> {}, right |-> {}, nattr |-> <<>>, edges |-> {}, shared |-> FALSE]

\* The caller's graph after a step that left the graph X behind: when X is
\* made of the caller's own Node and Edge objects, the caller's nodes carry
\* the registries and the edge sets X gave them.
CallerView(c, X) ==
    IF X.shared
        THEN [c EXCEPT !.nattr = [n \in Nodes(c) |-> IF n \in DOMAIN X.nattr THEN X.nattr[n] ELSE c.nattr[n]],
                       !.edges = X.edges]
        ELSE c

LeftNames(l) == {LeftPool[i] : i \in 1..l}
RightNames(r) == {RightPool[i] : i \in 1..r}

\* A graph built by the constructor, add_left_node, add_right_node and
\* add_edge: cell[a, x] is the weight of the edge from a to x, or NoEdge.
NoEdge == MaxWeight + 1

CallerGraph(left, right, cell) ==
    [left |-> left,
     right |-> right,
     nattr |-> [n \in left \cup right |-> NoAttributes],
     edges |-> {Edge(cell[p], NoAttributes, p[1], p[2]) :
                    p \in {q \in left \X right : cell[q] # NoEdge}},
     shared |-> TRUE]

\* The code compares node names for equality only, so a graph and its image
\* under a renaming of the left names and of the right names run alike.  One
\* graph of each such class is enough: the one whose rows (left nodes) and
\* whose columns (right nodes) are in lexicographic order.
RECURSIVE RowKey(_, _, _, _)
RowKey(cell, a, r, j) ==
    IF j > r THEN 0
    ELSE (cell[<<a, RightPool[j]>>] + MaxNegWeight) + (NoEdge + MaxNegWeight + 1) * RowKey(cell, a, r, j + 1)

RECURSIVE ColumnKey(_, _, _, _)
ColumnKey(cell, x, l, i) ==
    IF i > l THEN 0
    ELSE (cell[<<LeftPool[i], x>>] + MaxNegWeight) + (NoEdge + MaxNegWeight + 1) * ColumnKey(cell, x, l, i + 1)

Canonical(cell, l, r) ==
    /\ \A i \in 1..(l - 1) : RowKey(cell, LeftPool[i], r, 1) <= RowKey(cell, LeftPool[i + 1], r, 1)
    /\ \A j \in 1..(r - 1) : ColumnKey(cell, RightPool[j], l, 1) <= ColumnKey(cell, RightPool[j + 1], l, 1)

EdgePairs(G) == {<<e.s, e.t>> : e \in G.edges}

IsMatching(matching) ==
    \A p \in matching : \A q \in matching : (p[1] = q[1] \/ p[2] = q[2]) => p = q

MatchingsOf(G) == {m \in SUBSET EdgePairs(G) : IsMatching(m)}

MaximumMatchingsOf(G) ==
    {m \in MatchingsOf(G) : \A o \in MatchingsOf(G) : Cardinality(o) <= Cardinality(m)}

\* The graphs an entry point is called on: every graph of up to MaxLeft by
\* MaxRight nodes whose edges weigh 0..MaxWeight, and every complete one
\* whose edges weigh -MaxNegWeight..MaxWeight.
WeightedCells == {(0..MaxWeight) \cup {NoEdge}, Weights}

\* MaximumCardinalityMatching and MinimumVertexCover read no weight
UnweightedCells == {{DUMMY_EDGE_WEIGHT, NoEdge}}

InitGraph(a, families) ==
    /\ alg = a
    /\ \E l \in 0..MaxLeft : \E r \in 0..MaxRight : \E cells \in families :
         \E cell \in [LeftNames(l) \X RightNames(r) -> cells] :
           /\ Canonical(cell, l, r)
           /\ caller = CallerGraph(LeftNames(l), RightNames(r), cell)
    /\ input = caller
    /\ pc = "start"
    /\ W = EmptyGraph
    /\ sub = EmptyGraph
    /\ mcmG = EmptyGraph
    /\ cover = {}
    /\ root = None
    /\ S = {}
    /\ T = {}
    /\ N = {}
    /\ result = {}
    /\ error = None

InitCall(a, families) == InitGraph(a, families) /\ M = {}

(***************************************************************************)
(* MaximumCardinalityMatching.apply.                                       *)
(***************************************************************************)
MCM_Enter(G) ==
    LET G_prime == add_edge_attributes(
                       add_node_attributes(G, MATCHING_ATTRIBUTE, FALSE), MATCHING_ATTRIBUTE, FALSE)
    IN /\ mcmG' = G_prime
       /\ caller' = CallerView(caller, G_prime)
       /\ pc' = "mcm"

MCM_Start ==
    /\ alg = "MCM"
    /\ pc = "start"
    /\ MCM_Enter(caller)
    /\ UNCHANGED <<alg, input, W, sub, M, cover, root, S, T, N, result, error>>

\* the main loop of KuhnMunkres.apply entered without __preprocess_weights
MAIN_LOOP == "KM main loop"

\* the callers that take the matching back from MaximumCardinalityMatching.apply
FromKuhnMunkres == {"KM", MAIN_LOOP}

\* One evaluation of the while loop: the search finds an augmenting path and
\* current_matching is augmented along it, or it finds none and apply returns
\* current_matching (to KuhnMunkres.apply when the call came from there).
MCM_Iterate ==
    /\ pc = "mcm"
    /\ \E path \in compute_augmenting_path(mcmG, M) :
         LET augmenting_path == postprocess_augmenting_path(path)
             current_matching == SymmetricDifference(M, Range(augmenting_path))
             G_prime == UpdateMatched(mcmG, current_matching)
         IN IF augmenting_path # <<>>
               THEN /\ M' = current_matching
                    /\ mcmG' = G_prime
                    /\ caller' = CallerView(caller, G_prime)
                    /\ UNCHANGED <<pc, result>>
               ELSE /\ pc' = IF alg \in FromKuhnMunkres THEN "km_check" ELSE "done"
                    /\ result' = IF alg \in FromKuhnMunkres THEN result ELSE M
                    /\ UNCHANGED <<caller, mcmG, M>>
    /\ UNCHANGED <<alg, input, W, sub, cover, root, S, T, N, error>>

(***************************************************************************)
(* MinimumVertexCover.apply, called with a maximum matching of the graph.  *)
(***************************************************************************)
MVC_Start ==
    /\ alg = "MVC"
    /\ pc = "start"
    /\ \E m \in MaximumMatchingsOf(caller) : M' = m
    /\ pc' = "mvc"
    /\ UNCHANGED <<alg, input, caller, W, sub, mcmG, cover, root, S, T, N, result, error>>

MVC_Apply ==
    /\ pc = "mvc"
    /\ cover' = MinimumVertexCover(caller, M)
    /\ result' = cover'
    /\ caller' = CallerView(caller, ReverseMatched(caller, M))
    /\ pc' = "done"
    /\ UNCHANGED <<alg, input, W, sub, mcmG, M, root, S, T, N, error>>

(***************************************************************************)
(* KuhnMunkres.apply.                                                      *)
(***************************************************************************)
KM_Start ==
    /\ alg = "KM"
    /\ pc = "start"
    /\ LET pruned == remove_disconnected_nodes(caller)
           balanced == construct_balanced_equivalent(pruned)
           G_prime == preprocess_weights(balanced)
       IN /\ W' = G_prime
          /\ caller' = CallerView(CallerView(caller, balanced), G_prime)
    /\ M' = {}
    /\ pc' = "km_loop"
    /\ UNCHANGED <<alg, input, sub, mcmG, cover, root, S, T, N, result, error>>

\* the head of the loop, up to the call of MaximumCardinalityMatching.apply
KM_Iterate ==
    /\ pc = "km_loop"
    /\ LET G0_subgraph == extract_zero_weight_subgraph(W)
       IN /\ sub' = G0_subgraph
          /\ MCM_Enter(G0_subgraph)
    /\ UNCHANGED <<alg, input, W, M, cover, root, S, T, N, result, error>>

KM_Return ==
    /\ pc = "km_check"
    /\ is_perfect(W, M)
    /\ result' = postprocess_maximum_matching(M)
    /\ pc' = "done"
    /\ UNCHANGED <<alg, input, caller, W, sub, mcmG, M, cover, root, S, T, N, error>>

KM_Adjust ==
    /\ pc = "km_check"
    /\ ~ is_perfect(W, M)
    /\ LET minimum_vertex_cover == MinimumVertexCover(sub, M)
       IN /\ cover' = minimum_vertex_cover
          /\ ~ AdjustRaises(W, minimum_vertex_cover)
          /\ W' = adjust_weights(W, minimum_vertex_cover)
          /\ caller' = CallerView(caller, W')
    /\ pc' = "km_loop"
    /\ UNCHANGED <<alg, input, sub, mcmG, M, root, S, T, N, result, error>>

\* delta is the min() of an empty set
KM_Fault ==
    /\ pc = "km_check"
    /\ ~ is_perfect(W, M)
    /\ LET minimum_vertex_cover == MinimumVertexCover(sub, M)
       IN /\ cover' = minimum_vertex_cover
          /\ AdjustRaises(W, minimum_vertex_cover)
    /\ error' = "ValueError"
    /\ pc' = "raised"
    /\ UNCHANGED <<alg, input, caller, W, sub, mcmG, M, root, S, T, N, result>>

(***************************************************************************)
(* EdmondsKarp.apply.                                                      *)
(***************************************************************************)
EK_Start ==
    /\ alg = "EK"
    /\ pc = "start"
    /\ LET pruned == remove_disconnected_nodes(caller)
           balanced == construct_balanced_equivalent(pruned)
           labeled == create_initial_vertex_labeling(balanced)
           G_prime == add_edge_attributes(
                          add_node_attributes(labeled, MATCHING_ATTRIBUTE, FALSE),
                          MATCHING_ATTRIBUTE, FALSE)
       IN /\ W' = G_prime
          /\ caller' = CallerView(CallerView(CallerView(caller, balanced), labeled), G_prime)
    /\ M' = {}
    /\ pc' = "ek_outer"
    /\ UNCHANGED <<alg, input, sub, mcmG, cover, root, S, T, N, result, error>>

\* the matching is perfect: apply returns
EK_Return ==
    /\ pc = "ek_outer"
    /\ is_perfect(W, M)
    /\ result' = postprocess_maximum_matching(M)
    /\ pc' = "done"
    /\ UNCHANGED <<alg, input, caller, W, sub, mcmG, M, cover, root, S, T, N, error>>

\* the head of the outer loop: a root, the tree of the root alone
EK_Root ==
    /\ pc = "ek_outer"
    /\ ~ is_perfect(W, M)
    /\ \E root_node \in select_arbitrary_exposed_vertex(W, M) :
         LET G_equality_subgraph == construct_equality_subgraph(W)
         IN /\ root' = root_node
            /\ S' = {root_node}
            /\ T' = {}
            /\ sub' = G_equality_subgraph
            /\ N' = compute_joint_neighborhood(G_equality_subgraph, {root_node})
    /\ pc' = "ek_tree"
    /\ UNCHANGED <<alg, input, caller, W, mcmG, M, cover, result, error>>

\* the joint neighborhood equals T: the labels are adjusted
EK_Relabel ==
    /\ pc = "ek_tree"
    /\ SymmetricDifference(T, N) = {}
    /\ ~ RelabelRaises(W, S, T)
    /\ LET G_prime == adjust_labeling(W, S, T)
           G_equality_subgraph == construct_equality_subgraph(G_prime)
       IN /\ W' = G_prime
          /\ caller' = CallerView(caller, G_prime)
          /\ sub' = G_equality_subgraph
          /\ N' = compute_joint_neighborhood(G_equality_subgraph, S)
    /\ pc' = "ek_leaf"
    /\ UNCHANGED <<alg, input, mcmG, M, cover, root, S, T, result, error>>

AtLeafSelection == pc = "ek_leaf" \/ (pc = "ek_tree" /\ SymmetricDifference(T, N) # {})

LeafMatched(leaf_node) == sub.nattr[leaf_node][MATCHING_ATTRIBUTE]

\* the leaf is not matched: the matching is augmented along a path to it
EK_Augment ==
    /\ AtLeafSelection
    /\ \E leaf_node \in N \ T :
         /\ ~ LeafMatched(leaf_node)
         /\ \E path \in ek_compute_augmenting_path(sub, M, root, leaf_node) :
              LET augmenting_path == postprocess_augmenting_path(path)
                  current_matching == SymmetricDifference(M, Range(augmenting_path))
                  G_prime == UpdateMatched(W, current_matching)
              IN /\ M' = current_matching
                 /\ W' = G_prime
                 /\ caller' = CallerView(caller, G_prime)
    /\ pc' = "ek_outer"
    /\ UNCHANGED <<alg, input, sub, mcmG, cover, root, S, T, N, result, error>>

\* the leaf is matched: it and its partner join the tree
EK_Grow ==
    /\ AtLeafSelection
    /\ \E leaf_node \in N \ T :
         /\ LeafMatched(leaf_node)
         /\ \E matching_leaf_node_name \in {p[1] : p \in {q \in M : q[2] = leaf_node}} :
              /\ S' = S \cup {matching_leaf_node_name}
              /\ T' = T \cup {leaf_node}
    /\ pc' = "ek_tree"
    /\ UNCHANGED <<alg, input, caller, W, sub, mcmG, M, cover, root, N, result, error>>

\* min() of an empty set in __compute_delta; pop() from an empty set at the
\* selection of the root, of the leaf or of the partner of a matched leaf
EK_Fault ==
    /\ \/ /\ pc = "ek_tree"
          /\ SymmetricDifference(T, N) = {}
          /\ RelabelRaises(W, S, T)
          /\ error' = "ValueError"
       \/ /\ pc = "ek_outer"
          /\ ~ is_perfect(W, M)
          /\ select_arbitrary_exposed_vertex(W, M) = {}
          /\ error' = IF M = {} THEN "KeyError" ELSE "AttributeError"
       \/ /\ AtLeafSelection
          /\ \/ N \ T = {}
             \/ \E leaf_node \in N \ T : LeafMatched(leaf_node) /\ {q \in M : q[2] = leaf_node} = {}
          /\ error' = "KeyError"
    /\ pc' = "raised"
    /\ UNCHANGED <<alg, input, caller, W, sub, mcmG, M, cover, root, S, T, N, result>>

NextEK == EK_Start \/ EK_Return \/ EK_Root \/ EK_Relabel \/ EK_Augment \/ EK_Grow \/ EK_Fault

SpecEK == InitCall("EK", WeightedCells) /\ [][NextEK]_vars

NextMCM == MCM_Start \/ MCM_Iterate

NextMVC == MVC_Start \/ MVC_Apply

NextKM == KM_Start \/ KM_Iterate \/ MCM_Iterate \/ KM_Return \/ KM_Adjust \/ KM_Fault

SpecMCM == InitCall("MCM", UnweightedCells) /\ [][NextMCM]_vars

SpecMVC == InitCall("MVC", UnweightedCells) /\ [][NextMVC]_vars

SpecKM == InitCall("KM", WeightedCells) /\ [][NextKM]_vars

(***************************************************************************)
(* is_perfect(G, maximum_matching), called with any set of pairs of a left *)
(* name and a right name of G, edges of G or not.                          *)
(***************************************************************************)
InitPerfect ==
    /\ InitGraph("is_perfect", UnweightedCells)
    /\ M \in SUBSET (caller.left \X caller.right)

IsPerfect_Apply ==
    /\ alg = "is_perfect"
    /\ pc = "start"
    /\ result' = is_perfect(caller, M)
    /\ pc' = "done"
    /\ UNCHANGED <<alg, input, caller, W, sub, mcmG, M, cover, root, S, T, N, error>>

SpecPerfect == InitPerfect /\ [][IsPerfect_Apply]_vars

(***************************************************************************)
(* A graph transformation applied to the caller's graph, and then one      *)
(* mutation of the graph it returned: W is the returned graph.             *)
(***************************************************************************)
Transformations ==
    {"construct_balanced_equivalent", "remove_disconnected_nodes", "modify_graph",
     "add_node_attributes", "add_edge_attributes", "extract_edge_induced_subgraph"}

\* modify_graph is called with a matching of the graph
InitTransform ==
    /\ \E a \in Transformations : InitGraph(a, UnweightedCells)
    /\ M \in (IF alg = "modify_graph" THEN MatchingsOf(caller) ELSE {{}})

Transformed(a, G_prime) ==
    /\ alg = a
    /\ pc = "start"
    /\ W' = G_prime
    /\ caller' = CallerView(caller, G_prime)
    /\ pc' = "returned"
    /\ UNCHANGED <<alg, input, sub, mcmG, M, cover, root, S, T, N, result, error>>

Balance == Transformed("construct_balanced_equivalent", construct_balanced_equivalent(caller))

Prune == Transformed("remove_disconnected_nodes", remove_disconnected_nodes(caller))

Modify ==
    \/ Transformed("modify_graph", ReverseMatched(caller, M))
    \/ Transformed("modify_graph", UpdateMatched(caller, M))

AddNodeAttributes ==
    Transformed("add_node_attributes", add_node_attributes(caller, MATCHING_ATTRIBUTE, FALSE))

AddEdgeAttributes ==
    Transformed("add_edge_attributes", add_edge_attributes(caller, MATCHING_ATTRIBUTE, FALSE))

\* with the predicate of the zero-weight subgraph, or the one of __deepcopy__
Extract ==
    \/ Transformed("extract_edge_induced_subgraph", extract_zero_weight_subgraph(caller))
    \/ Transformed("extract_edge_induced_subgraph", deepcopy(caller))

Mutated(G_prime) ==
    /\ pc = "returned"
    /\ W' = G_prime
    /\ caller' = CallerView(caller, G_prime)
    /\ pc' = "mutated"
    /\ UNCHANGED <<alg, input, sub, mcmG, M, cover, root, S, T, N, result, error>>

\* node.set_attribute_value on a node of the returned graph
MutateNodeAttribute ==
    \E n \in Nodes(W) :
        Mutated([W EXCEPT !.nattr[n] = set_attribute_value(W.nattr[n], VISITED_ATTRIBUTE, TRUE)])

\* edge.set_attribute_value on an edge of the returned graph
MutateEdgeAttribute ==
    \E e \in W.edges :
        Mutated([W EXCEPT !.edges = (W.edges \ {e}) \cup
                    {[e EXCEPT !.attr = set_attribute_value(e.attr, VISITED_ATTRIBUTE, TRUE)]}])

\* edge.set_weight on an edge of the returned graph
MutateWeight ==
    \E e \in W.edges :
        Mutated([W EXCEPT !.edges = (W.edges \ {e}) \cup {[e EXCEPT !.w = e.w + 1]}])

\* add_edge between two nodes of the returned graph no edge joins
MutateAddEdge ==
    \E s \in W.left : \E t \in W.right :
        /\ <<s, t>> \notin EdgePairs(W)
        /\ <<t, s>> \notin EdgePairs(W)
        /\ Mutated(add_edge(W, DUMMY_EDGE_WEIGHT, NoAttributes, s, t))

NextTransform ==
    \/ Balance \/ Prune \/ Modify \/ AddNodeAttributes \/ AddEdgeAttributes \/ Extract
    \/ MutateNodeAttribute \/ MutateEdgeAttribute \/ MutateWeight \/ MutateAddEdge

SpecTransform == InitTransform /\ [][NextTransform]_vars

(***************************************************************************)
(* A BipartiteGraph under construction: the constructor on two sets of     *)
(* nodes without edges, then add_left_node, add_right_node and add_edge    *)
(* with nodes of the pool, until a call raises.  caller is the graph,      *)
(* input the graph before the last call, result the last call.             *)
(***************************************************************************)
NodePool == LeftNames(MaxPool) \cup RightNames(MaxPool)

InitGraphObject ==
    /\ alg = "BipartiteGraph"
    /\ pc = "start"
    /\ caller = [EmptyGraph EXCEPT !.shared = TRUE]
    /\ input = caller
    /\ W = EmptyGraph /\ sub = EmptyGraph /\ mcmG = EmptyGraph
    /\ M = {} /\ cover = {} /\ root = None /\ S = {} /\ T = {} /\ N = {}
    /\ result = [op |-> None]
    /\ error = None

\* the call has changed the graph to G_prime and then checked it
Called(call, G_prime, exception) ==
    /\ input' = caller
    /\ caller' = G_prime
    /\ result' = call
    /\ error' = exception
    /\ pc' = IF exception = None THEN "ready" ELSE "raised"
    /\ UNCHANGED <<alg, W, sub, mcmG, M, cover, root, S, T, N>>

Construct ==
    /\ alg = "BipartiteGraph"
    /\ pc = "start"
    /\ \E left_nodeset \in SUBSET NodePool : \E right_nodeset \in SUBSET NodePool :
         LET G == [left |-> left_nodeset, right |-> right_nodeset,
                   nattr |-> [n \in left_nodeset \cup right_nodeset |-> NoAttributes],
                   edges |-> {}, shared |-> TRUE]
         IN Called([op |-> "__init__"], G, check_validity(G))

AddLeftNode ==
    /\ alg = "BipartiteGraph"
    /\ pc = "ready"
    /\ \E node \in NodePool :
         LET G == add_left_node(caller, node)
         IN Called([op |-> "add_left_node", node |-> node], G, check_validity(G))

AddRightNode ==
    /\ alg = "BipartiteGraph"
    /\ pc = "ready"
    /\ \E node \in NodePool :
         LET G == add_right_node(caller, node)
         IN Called([op |-> "add_right_node", node |-> node], G, check_validity(G))

AddEdge ==
    /\ alg = "BipartiteGraph"
    /\ pc = "ready"
    /\ \E weight \in 0..MaxWeight : \E source_node \in NodePool : \E terminal_node \in NodePool :
         LET after == AddEdgeSteps(caller, weight, NoAttributes, source_node, terminal_node)
         IN Called([op |-> "add_edge", weight |-> weight,
                    source_node |-> source_node, terminal_node |-> terminal_node],
                   after.graph, after.error)

NextGraphObject == Construct \/ AddLeftNode \/ AddRightNode \/ AddEdge

SpecGraph == InitGraphObject /\ [][NextGraphObject]_vars

(***************************************************************************)
(* Dijkstra.one_to_many on an adjacency mapping: input is the mapping,     *)
(* root the source node, result the (dist, prev_node) pair it returned.    *)
(* The source is the first key; the mappings have no edge from a node to   *)
(* itself and none into the source (such an edge relaxes nothing when the  *)
(* weights are not negative).                                              *)
(***************************************************************************)
AdjacencyMapping(keys, cell) ==
    [c \in keys |-> [n \in {m \in keys : <<c, m>> \in DOMAIN cell /\ cell[<<c, m>>] # NoEdge}
                        |-> cell[<<c, n>>]]]

InitDijkstra ==
    /\ alg = "Dijkstra"
    /\ pc = "start"
    /\ root = LeftPool[1]
    /\ \E k \in 1..MaxKeys :
         LET keys == LeftNames(k)
             pairs == {p \in keys \X (keys \ {root}) : p[1] # p[2]}
         IN \E cell \in [pairs -> (0..MaxWeight) \cup {NoEdge}] :
                input = AdjacencyMapping(keys, cell)
    /\ caller = EmptyGraph /\ W = EmptyGraph /\ sub = EmptyGraph /\ mcmG = EmptyGraph
    /\ M = {} /\ cover = {} /\ S = {} /\ T = {} /\ N = {}
    /\ result = {}
    /\ error = None

\* the key order of the mapping decides which result is returned
Dijkstra_Apply ==
    /\ alg = "Dijkstra"
    /\ pc = "start"
    /\ \E r \in one_to_many(input, root) : result' = r
    /\ pc' = "returned"
    /\ UNCHANGED <<alg, input, caller, W, sub, mcmG, M, cover, root, S, T, N, error>>

SpecDijkstra == InitDijkstra /\ [][Dijkstra_Apply]_vars

(***************************************************************************)
(* __deepcopy__ and extract_edge_induced_subgraph on the graphs the        *)
(* package builds: a graph as the caller made it, or the residual graph of *)
(* a matching M (Matched attributes set, matched edges reversed).  W is    *)
(* the graph returned, sub the copy of W, result the predicate as the      *)
(* function of the edge; then one mutation of W.                           *)
(***************************************************************************)
ResidualGraph(G, matching) ==
    ReverseMatched(
        UpdateMatched(
            add_edge_attributes(add_node_attributes(G, MATCHING_ATTRIBUTE, FALSE),
                                MATCHING_ATTRIBUTE, FALSE),
            matching),
        matching)

InitCopy ==
    /\ alg \in {"__deepcopy__", "extract_edge_induced_subgraph"}
    /\ pc = "start"
    /\ \E l \in 0..MaxLeft : \E r \in 0..MaxRight :
         \E cell \in [LeftNames(l) \X RightNames(r) -> (0..MaxWeight) \cup {NoEdge}] :
           LET G == CallerGraph(LeftNames(l), RightNames(r), cell)
           IN /\ Canonical(cell, l, r)
              /\ M \in MaximumMatchingsOf(G) \cup {{}}
              /\ caller \in {G, [ResidualGraph(G, M) EXCEPT !.shared = TRUE]}
    /\ input = caller
    /\ W = EmptyGraph /\ sub = EmptyGraph /\ mcmG = EmptyGraph
    /\ cover = {} /\ root = None /\ S = {} /\ T = {} /\ N = {}
    /\ result = {}
    /\ error = None

DeepCopy ==
    /\ alg = "__deepcopy__"
    /\ pc = "start"
    /\ W' = deepcopy(caller)
    /\ caller' = CallerView(caller, W')
    /\ pc' = "returned"
    /\ UNCHANGED <<alg, input, sub, mcmG, M, cover, root, S, T, N, result, error>>

\* the copy of the copy
DeepCopyAgain ==
    /\ alg = "__deepcopy__"
    /\ pc = "returned"
    /\ sub' = deepcopy(W)
    /\ W' = CallerView(W, sub')
    /\ pc' = "copied"
    /\ UNCHANGED <<alg, input, caller, mcmG, M, cover, root, S, T, N, result, error>>

\* the predicates of the package: every edge, the edges of weight zero, the
\* edges whose pair of names is in the matching
Predicates(G, matching) ==
    {[e \in G.edges |-> AnyEdge(e)],
     [e \in G.edges |-> ZeroWeight(e)],
     [e \in G.edges |-> InMatching(matching, e)]}

ExtractSubgraph ==
    /\ alg = "extract_edge_induced_subgraph"
    /\ pc = "start"
    /\ \E predicate \in Predicates(caller, M) :
         /\ W' = extract_edge_induced_subgraph(caller, predicate)
         /\ result' = predicate
    /\ caller' = CallerView(caller, W')
    /\ pc' = "returned"
    /\ UNCHANGED <<alg, input, sub, mcmG, M, cover, root, S, T, N, error>>

NextCopy ==
    \/ DeepCopy \/ DeepCopyAgain \/ ExtractSubgraph
    \/ MutateNodeAttribute \/ MutateEdgeAttribute \/ MutateWeight \/ MutateAddEdge

SpecCopy == InitCopy /\ [][NextCopy]_vars

(***************************************************************************)
(* AdjacencyMatrix: the list of nodes and the list of rows of edges, built *)
(* from the empty object by add_node and add_edge.  A call changes the     *)
(* object first and checks it last, so a call that raises leaves the       *)
(* changed object behind.                                                  *)
(***************************************************************************)
EmptyMatrix == [nodes |-> <<>>, adjacency_matrix |-> <<>>]

get_node_names(A) == A.nodes

matrix_has_conflicting_node_names(A) ==
    Len(get_node_names(A)) # Cardinality(Range(get_node_names(A)))

has_incompatible_matrix_dimensions(A) ==
    \/ Len(A.nodes) # Len(A.adjacency_matrix)
    \/ \E i \in 1..Len(A.adjacency_matrix) : Len(A.nodes) # Len(A.adjacency_matrix[i])

matrix_check_validity(A) ==
    IF matrix_has_conflicting_node_names(A) THEN "Error: Nodes have conflicting names"
    ELSE IF has_incompatible_matrix_dimensions(A)
        THEN "Error: Nodes list and adjacency matrix have incompatible dimensions"
    ELSE None

\* the placeholder edges of the new row lead to the old nodes and leave them
NewRowReversed(nodes, rows, node) ==
    [index \in 1..(rows - 1) |-> Edge(0, NoAttributes, nodes[index], node)]

\* the row of placeholder edges from the new node to every node before it
NewRow(nodes, rows, node) ==
    [index \in 1..(rows - 1) |-> Edge(0, NoAttributes, node, nodes[index])]

\* add_node up to its call of __check_validity
matrix_add_node(A, node) ==
    LET nodes == Append(A.nodes, node)
        rows == Len(A.adjacency_matrix) + 1
        with_row == Append(A.adjacency_matrix, NewRow(nodes, rows, node))
    IN [nodes |-> nodes,
        adjacency_matrix |->
            [row_index \in 1..rows |->
                Append(with_row[row_index], Edge(0, NoAttributes, nodes[row_index], node))]]

IndexOf(names, name) ==
    CHOOSE i \in 1..Len(names) : names[i] = name /\ \A k \in 1..(i - 1) : names[k] # name

\* add_edge, with the exception it ends with; add_node raises after it has
\* changed the object
MatrixAddEdgeSteps(A, weight, attributes, source_node, terminal_node) ==
    LET A1 == IF source_node \notin Range(get_node_names(A))
                 THEN matrix_add_node(A, source_node) ELSE A
        e1 == IF A1 = A THEN None ELSE matrix_check_validity(A1)
        A2 == IF terminal_node \notin Range(get_node_names(A1))
                 THEN matrix_add_node(A1, terminal_node) ELSE A1
        e2 == IF A2 = A1 THEN None ELSE matrix_check_validity(A2)
        edge == Edge(weight, attributes, source_node, terminal_node)
        source_node_index == IndexOf(get_node_names(A2), source_node)
        terminal_node_index == IndexOf(get_node_names(A2), terminal_node)
        A3 == [A2 EXCEPT !.adjacency_matrix[source_node_index][terminal_node_index] = edge]
    IN IF e1 # None THEN [matrix |-> A1, error |-> e1]
       ELSE IF e2 # None THEN [matrix |-> A2, error |-> e2]
       ELSE [matrix |-> A3, error |-> matrix_check_validity(A3)]

MatrixPool == LeftNames(MaxPool) \cup {RightPool[1]}

InitMatrix ==
    /\ alg = "AdjacencyMatrix"
    /\ pc = "ready"
    /\ caller = EmptyMatrix
    /\ input = caller
    /\ W = EmptyGraph /\ sub = EmptyGraph /\ mcmG = EmptyGraph
    /\ M = {} /\ cover = {} /\ root = None /\ S = {} /\ T = {} /\ N = {}
    /\ result = [op |-> "__init__"]
    /\ error = matrix_check_validity(EmptyMatrix)

MatrixAddNode ==
    /\ alg = "AdjacencyMatrix"
    /\ pc = "ready"
    /\ \E node \in MatrixPool :
         LET A == matrix_add_node(caller, node)
         IN Called([op |-> "add_node", node |-> node], A, matrix_check_validity(A))

MatrixAddEdge ==
    /\ alg = "AdjacencyMatrix"
    /\ pc = "ready"
    /\ \E weight \in 0..MaxWeight : \E source_node \in MatrixPool : \E terminal_node \in MatrixPool :
         LET after == MatrixAddEdgeSteps(caller, weight, NoAttributes, source_node, terminal_node)
         IN Called([op |-> "add_edge", weight |-> weight,
                    source_node |-> source_node, terminal_node |-> terminal_node],
                   after.matrix, after.error)

NextMatrix == MatrixAddNode \/ MatrixAddEdge

SpecMatrix == InitMatrix /\ [][NextMatrix]_vars

(***************************************************************************)
(* EdmondsKarp.__create_initial_vertex_labeling, the edges visited in any  *)
(* order: W is G_prime, S the set of edges the loop has still to visit.    *)
(***************************************************************************)
LABELING == "__create_initial_vertex_labeling"

Labeling_Start ==
    /\ alg = LABELING
    /\ pc = "start"
    /\ LET G_prime == add_node_attributes(caller, LABELING_ATTRIBUTE, 0)
       IN /\ W' = G_prime
          /\ S' = get_edges(G_prime)
    /\ pc' = "labeling"
    /\ UNCHANGED <<alg, input, caller, sub, mcmG, M, cover, root, T, N, result, error>>

Labeling_Visit ==
    /\ pc = "labeling"
    /\ \E edge \in S :
         /\ W' = LabelEdge(W, edge)
         /\ S' = S \ {edge}
    /\ UNCHANGED <<alg, pc, input, caller, sub, mcmG, M, cover, root, T, N, result, error>>

Labeling_Return ==
    /\ pc = "labeling"
    /\ S = {}
    /\ result' = [n \in Nodes(W) |-> Label(W, n)]
    /\ pc' = "done"
    /\ UNCHANGED <<alg, input, caller, W, sub, mcmG, M, cover, root, S, T, N, error>>

NextLabeling == Labeling_Start \/ Labeling_Visit \/ Labeling_Return

SpecLabeling == InitCall(LABELING, WeightedCells) /\ [][NextLabeling]_vars

(***************************************************************************)
(* KuhnMunkres.__adjust_weights called on the caller's graph with any set  *)
(* of its nodes for the cover.                                             *)
(***************************************************************************)
ADJUST_WEIGHTS == "__adjust_weights"

InitAdjust ==
    /\ InitGraph(ADJUST_WEIGHTS, WeightedCells)
    /\ M = {}

AdjustWeights_Apply ==
    /\ alg = ADJUST_WEIGHTS
    /\ pc = "start"
    /\ \E minimum_vertex_cover \in SUBSET Nodes(caller) :
         /\ cover' = minimum_vertex_cover
         /\ IF AdjustRaises(caller, minimum_vertex_cover)
               THEN /\ error' = "ValueError"
                    /\ pc' = "raised"
                    /\ UNCHANGED <<caller, W>>
               ELSE /\ W' = adjust_weights(caller, minimum_vertex_cover)
                    /\ caller' = CallerView(caller, W')
                    /\ pc' = "done"
                    /\ UNCHANGED error
    /\ UNCHANGED <<alg, input, sub, mcmG, M, root, S, T, N, result>>

SpecAdjust == InitAdjust /\ [][AdjustWeights_Apply]_vars

(***************************************************************************)
(* MaximumCardinalityMatching.apply(G, initial_matching) called with any   *)
(* matching of G; input holds both arguments of the call.                  *)
(***************************************************************************)
InitSeeded ==
    /\ alg = "MCM"
    /\ \E l \in 0..MaxLeft : \E r \in 0..MaxRight :
         \E cell \in [LeftNames(l) \X RightNames(r) -> {DUMMY_EDGE_WEIGHT, NoEdge}] :
           /\ Canonical(cell, l, r)
           /\ caller = CallerGraph(LeftNames(l), RightNames(r), cell)
    /\ M \in MatchingsOf(caller)
    /\ input = [initial_matching |-> M] @@ caller
    /\ pc = "start"
    /\ W = EmptyGraph /\ sub = EmptyGraph /\ mcmG = EmptyGraph
    /\ cover = {} /\ root = None /\ S = {} /\ T = {} /\ N = {}
    /\ result = {}
    /\ error = None

SpecSeeded == InitSeeded /\ [][NextMCM]_vars

(***************************************************************************)
(* KuhnMunkres.apply next to its main loop entered without                 *)
(* __preprocess_weights.                                                   *)
(***************************************************************************)
\* apply with the call of __preprocess_weights taken out
KM_MainLoop ==
    /\ alg = MAIN_LOOP
    /\ pc = "start"
    /\ LET pruned == remove_disconnected_nodes(caller)
           balanced == construct_balanced_equivalent(pruned)
       IN /\ W' = balanced
          /\ caller' = CallerView(caller, balanced)
    /\ M' = {}
    /\ pc' = "km_loop"
    /\ UNCHANGED <<alg, input, sub, mcmG, cover, root, S, T, N, result, error>>

InitMainLoop == \E a \in FromKuhnMunkres : InitCall(a, WeightedCells)

NextMainLoop ==
    \/ KM_Start \/ KM_MainLoop
    \/ KM_Iterate \/ MCM_Iterate \/ KM_Return \/ KM_Adjust \/ KM_Fault

SpecMainLoop == InitMainLoop /\ [][NextMainLoop]_vars

(***************************************************************************)
(* The graph of two left and two right nodes whose four edges weigh 1, 2, *)
(* 3 and 4, one more graph KuhnMunkres.apply and EdmondsKarp.apply are     *)
(* called on.                                                              *)
(***************************************************************************)
ExampleGraph(a, b, x, y) ==
    [left |-> {a, b},
     right |-> {x, y},
     nattr |-> [n \in {a, b, x, y} |-> NoAttributes],
     edges |-> {Edge(1, NoAttributes, a, x), Edge(2, NoAttributes, a, y),
                Edge(3, NoAttributes, b, x), Edge(4, NoAttributes, b, y)},
     shared |-> TRUE]

InitExample ==
    /\ alg \in {"KM", "EK"}
    /\ pc = "start"
    /\ caller = ExampleGraph(LeftPool[1], LeftPool[2], RightPool[1], RightPool[2])
    /\ input = caller
    /\ W = EmptyGraph /\ sub = EmptyGraph /\ mcmG = EmptyGraph
    /\ M = {} /\ cover = {} /\ root = None /\ S = {} /\ T = {} /\ N = {}
    /\ result = {}
    /\ error = None

\* a call of any of the four entry points
Init ==
    \/ InitCall("MCM", UnweightedCells)
    \/ InitCall("MVC", UnweightedCells)
    \/ InitCall("KM", WeightedCells)
    \/ InitCall("EK", WeightedCells)
    \/ InitExample

Next ==
    \/ MCM_Start \/ MCM_Iterate
    \/ MVC_Start \/ MVC_Apply
    \/ KM_Start \/ KM_Iterate \/ KM_Return \/ KM_Adjust \/ KM_Fault
    \/ EK_Start \/ EK_Return \/ EK_Root \/ EK_Relabel \/ EK_Augment \/ EK_Grow \/ EK_Fault

Spec == Init /\ [][Next]_vars

(***************************************************************************)
(* Properties.  The matchings of a graph are enumerated by brute force.    *)
(***************************************************************************)
EdgeWeight(G, p) == (CHOOSE e \in G.edges : e.s = p[1] /\ e.t = p[2]).w

RECURSIVE WeightSum(_, _)
WeightSum(G, matching) ==
    IF matching = {} THEN 0
    ELSE LET p == CHOOSE q \in matching : TRUE
         IN EdgeWeight(G, p) + WeightSum(G, matching \ {p})

PerfectMatchingsOf(G) ==
    {m \in MatchingsOf(G) : Cardinality(m) = Cardinality(G.left)
                            /\ Cardinality(m) = Cardinality(G.right)}

Returned(a) == alg = a /\ pc = "done"

Raised(a) == alg = a /\ pc = "raised"

\* C1: on a balanced graph that has a perfect matching KuhnMunkres.apply never
\* raises, and what it returns is a perfect matching of the graph whose weight
\* sum is the least weight sum of the perfect matchings of the graph,
\* whatever choices were taken on the way.
C1_KuhnMunkresMinimumWeight ==
    (alg = "KM" /\ pc \in {"done", "raised"} /\ PerfectMatchingsOf(input) # {}) =>
        /\ pc = "done"
        /\ result \in PerfectMatchingsOf(input)
        /\ \A m \in PerfectMatchingsOf(input) : WeightSum(input, result) <= WeightSum(input, m)

\* a 3 by 3 call that adjusted the weights before it returned a perfect
\* matching that is not the only one
C1_Witness ==
    /\ Returned("KM")
    /\ Cardinality(input.left) = MaxLeft
    /\ cover # {}
    /\ result \in PerfectMatchingsOf(input)
    /\ \E m \in PerfectMatchingsOf(input) : WeightSum(input, m) > WeightSum(input, result)

MaximumWeightMatchingsOf(G) ==
    {m \in MatchingsOf(G) : \A o \in MatchingsOf(G) : WeightSum(G, o) <= WeightSum(G, m)}

\* C2: every call of EdmondsKarp.apply, on a complete graph or not, balanced
\* or not, returns, and what it returns is a matching of the graph whose
\* weight sum is the greatest weight sum of the matchings of the graph.
C2_EdmondsKarpMaximumWeight ==
    (alg = "EK" /\ pc \in {"done", "raised"}) =>
        /\ pc = "done"
        /\ result \in MaximumWeightMatchingsOf(input)

\* a matching no edge of the graph can be added to
IsMaximal(G, m) == \A p \in EdgePairs(G) : ~ IsMatching(m \cup {p}) \/ p \in m

\* C3: what MaximumCardinalityMatching.apply(G, {}) returns is a matching of G
\* (left-to-right edges of G, no name in two pairs) of the maximum matching
\* size of G, for every choice Dijkstra makes among the queued nodes and
\* every order of the node and edge sets.
C3_MaximumCardinality ==
    Returned("MCM") =>
        /\ result \subseteq EdgePairs(input)
        /\ IsMatching(result)
        /\ \A m \in MatchingsOf(input) : Cardinality(m) <= Cardinality(result)

\* a call returned three pairs on a graph where taking edges greedily can
\* end with fewer
C3_Witness ==
    /\ Returned("MCM")
    /\ Cardinality(result) = MaxLeft
    /\ \E m \in MatchingsOf(input) : IsMaximal(input, m) /\ Cardinality(m) < Cardinality(result)

\* the names reachable from the unmatched left nodes once the edges of the
\* matching are turned around
Arcs(G, matching) ==
    {IF <<e.s, e.t>> \in matching THEN <<e.t, e.s>> ELSE <<e.s, e.t>> : e \in G.edges}

RECURSIVE ReachableFrom(_, _)
ReachableFrom(arcs, seen) ==
    LET more == seen \cup {a[2] : a \in {b \in arcs : b[1] \in seen}}
    IN IF more = seen THEN seen ELSE ReachableFrom(arcs, more)

Z(G, matching) == ReachableFrom(Arcs(G, matching), G.left \ {p[1] : p \in matching})

\* C4: for a maximum matching M of a graph with left-to-right edges
\* MinimumVertexCover.apply(G, M) returns (left names minus Z) union (right
\* names intersect Z), Z the names reachable from the unmatched left nodes
\* after the edges of M are reversed; the set has an endpoint of every edge
\* of G and exactly |M| elements.
C4_MinimumVertexCover ==
    Returned("MVC") =>
        /\ result = (input.left \ Z(input, M)) \cup (input.right \cap Z(input, M))
        /\ \A e \in input.edges : e.s \in result \/ e.t \in result
        /\ Cardinality(result) = Cardinality(M)

\* a cover that takes names from both sides, of a graph with an unmatched
\* left node
C4_Witness ==
    /\ Returned("MVC")
    /\ result \cap input.left # {}
    /\ result \cap input.right # {}
    /\ input.left \ {p[1] : p \in M} # {}
    /\ Cardinality(M) >= 2

\* the pairs of the set a name occurs in
PairsOf(matching, n) == {p \in matching : p[1] = n \/ p[2] = n}

SaidPerfect(G, matching) ==
    /\ Cardinality(matching) = Cardinality(G.left)
    /\ Cardinality(matching) = Cardinality(G.right)
    /\ \A n \in Nodes(G) : Cardinality(PairsOf(matching, n)) = 1

\* C5 as stated: for every set M of pairs, edges of G or not, is_perfect(G, M)
\* is true exactly when |M| = |left| = |right| and every node name of G is in
\* exactly one pair of M.
C5_IsPerfectAnyPairs ==
    Returned("is_perfect") => (result <=> SaidPerfect(input, M))

\* C5, amended: the same for every set M of pairs that are edges of G.
C5_IsPerfectEdgePairs ==
    (Returned("is_perfect") /\ M \subseteq EdgePairs(input)) =>
        (result <=> SaidPerfect(input, M))

\* is_perfect said yes to three edges of a 3 by 3 graph that has more
C5_Witness ==
    /\ Returned("is_perfect")
    /\ M \subseteq EdgePairs(input)
    /\ Cardinality(M) = MaxLeft
    /\ Cardinality(input.edges) > MaxLeft
    /\ result = TRUE

\* C6: the set KuhnMunkres.apply or EdmondsKarp.apply returns is a matching of
\* the caller's graph: every pair is (source name, terminal name) of an edge
\* of it, no name is in two pairs, and no pair names a dummy node.
C6_ResultIsMatchingOfCallersGraph ==
    (Returned("KM") \/ Returned("EK")) =>
        /\ result \subseteq EdgePairs(input)
        /\ IsMatching(result)
        /\ \A p \in result : ~ ContainsDummyName(p[1]) /\ ~ ContainsDummyName(p[2])

\* a call on an unbalanced graph returned some pairs after the pairs of the
\* dummy nodes were stripped from the matching of the balanced graph
C6_Witness ==
    /\ Returned("KM") \/ Returned("EK")
    /\ ~ is_balanced(input)
    /\ result # {}
    /\ \E p \in M : ContainsDummyName(p[1]) \/ ContainsDummyName(p[2])

\* C7: when one of the four entry points has returned or raised, the caller's
\* graph is what it was before the call: the same names on the same sides,
\* the same node and edge attributes, the same edges with the same direction
\* and weight.
C7_CallersGraphUnchanged ==
    pc \in {"done", "raised"} => caller = input

\* KuhnMunkres.apply raised after it had changed weights of its working graph
C7_Witness ==
    /\ Raised("KM")
    /\ \E e \in input.edges : e \notin W.edges
    /\ caller = input

\* C8: a graph a transformation returned shares no node object and no edge
\* object with the graph it was given: a later mutation of the returned
\* graph leaves the given graph as it was.
C8_TransformationsShareNothing ==
    (alg \in Transformations /\ pc = "mutated") => caller = input

OneEdgePerPair(G) ==
    \A e \in G.edges : \A o \in G.edges : (e.s = o.s /\ e.t = o.t) => e = o

C10_AddEdgeRaisesExactlyWhen ==
    (alg = "BipartiteGraph" /\ result.op = "add_edge") =>
        LET s == result.source_node
            t == result.terminal_node
            edge == Edge(result.weight, NoAttributes, s, t)
        IN /\ pc = "raised" <=>
                \/ s \in input.right
                \/ t \in input.left
                \/ s = t
                \/ \E e \in input.edges : e.s = s /\ e.t = t
           /\ pc = "ready" =>
                /\ caller.left = input.left \cup {s}
                /\ caller.right = input.right \cup {t}
                /\ edge \in get_outgoing_edges(caller, s)
                /\ edge \in get_incoming_edges(caller, t)

Larger(a, b) == IF a > b THEN a ELSE b

\* the edges of G that join the nodes d and n, in either direction
Joining(G, d, n) == {e \in G.edges : (e.s = d /\ e.t = n) \/ (e.s = n /\ e.t = d)}

\* C11: construct_balanced_equivalent(G) returns a graph with |left| =
\* |right| = max(|left of G|, |right of G|) that keeps every node and edge
\* of G, adds exactly ||left| - |right|| dummy nodes, all to the smaller
\* side, and joins each dummy node to every node of the larger side by
\* exactly one edge, of weight zero, and adds no other edge.
C11_BalancedEquivalent ==
    (alg = "construct_balanced_equivalent" /\ pc = "returned") =>
        LET l == Cardinality(input.left)
            r == Cardinality(input.right)
            dummies == Nodes(W) \ Nodes(input)
            larger == IF l > r THEN input.left ELSE input.right
        IN /\ Cardinality(W.left) = Larger(l, r)
           /\ Cardinality(W.right) = Larger(l, r)
           /\ input.left \subseteq W.left
           /\ input.right \subseteq W.right
           /\ \A n \in Nodes(input) : W.nattr[n] = input.nattr[n]
           /\ input.edges \subseteq W.edges
           /\ Cardinality(dummies) = Larger(l, r) - (IF l > r THEN r ELSE l)
           /\ dummies \subseteq (IF l > r THEN W.right ELSE W.left)
           /\ \A d \in dummies : \A n \in larger :
                /\ Cardinality(Joining(W, d, n)) = 1
                /\ \A e \in Joining(W, d, n) : e.w = 0
           /\ \A e \in W.edges \ input.edges :
                \E d \in dummies : \E n \in larger : e \in Joining(W, d, n)

\* three left nodes and one right node: two dummy right nodes
C11_Witness ==
    /\ alg = "construct_balanced_equivalent"
    /\ pc = "returned"
    /\ Cardinality(input.left) = 3
    /\ Cardinality(input.right) = 1
    /\ Cardinality(W.right \ input.right) = 2
    /\ input.edges # {}

\* the least length of a path of at most k edges from the source to each key
RECURSIVE WithinEdges(_, _, _)
WithinEdges(graph, source, k) ==
    IF k = 0 THEN [n \in DOMAIN graph |-> IF n = source THEN 0 ELSE Inf]
    ELSE LET d == WithinEdges(graph, source, k - 1)
             via(n) == {Plus(d[c], graph[c][n]) : c \in {m \in DOMAIN graph : n \in DOMAIN graph[m]}}
                           \ {Inf}
         IN [n \in DOMAIN graph |->
                IF \E v \in via(n) : Less(v, d[n])
                    THEN CHOOSE v \in via(n) : \A o \in via(n) : v <= o
                    ELSE d[n]]

ShortestDistance(graph, source) == WithinEdges(graph, source, Cardinality(DOMAIN graph))

\* the length of the path the predecessor map gives from the source to n,
\* Inf when it does not lead back to the source within fuel edges
RECURSIVE PredecessorPath(_, _, _, _, _)
PredecessorPath(graph, prev, source, n, fuel) ==
    IF n = source THEN 0
    ELSE IF fuel = 0 \/ prev[n] = None \/ n \notin DOMAIN graph[prev[n]] THEN Inf
    ELSE Plus(PredecessorPath(graph, prev, source, prev[n], fuel - 1), graph[prev[n]][n])

\* C12: for every adjacency mapping with non-negative weights and every
\* source, one_to_many returns for each reachable node its shortest-path
\* distance, and the predecessor map leads from it back to the source along
\* a path of that length; an unreachable node keeps distance infinity and
\* no predecessor.
C12_DijkstraShortestPaths ==
    (alg = "Dijkstra" /\ pc = "returned") =>
        LET shortest == ShortestDistance(input, root)
        IN \A n \in DOMAIN input :
             IF shortest[n] # Inf
                 THEN /\ result.dist[n] = shortest[n]
                      /\ PredecessorPath(input, result.prev, root, n, Cardinality(DOMAIN input))
                             = shortest[n]
                 ELSE /\ result.dist[n] = Inf
                      /\ result.prev[n] = None

\* node names per side, node attributes and edges (endpoints, direction,
\* weight, attributes) are the same
SameGraph(G, H) ==
    /\ G.left = H.left
    /\ G.right = H.right
    /\ G.nattr = H.nattr
    /\ G.edges = H.edges

\* C13: the deep copy of G has the node names per side, the node attributes
\* and the edges of G; the deep copy of the copy equals the copy; and a
\* mutation of the copy (an edge added, a weight or an attribute changed)
\* leaves G as it was.
C13_DeepCopy ==
    (alg = "__deepcopy__") =>
        /\ pc = "returned" => SameGraph(W, input)
        /\ pc = "copied" => SameGraph(sub, W) /\ SameGraph(W, input)
        /\ caller = input

\* the copy of a residual graph (a reversed edge, Matched attributes) has
\* been mutated
C13_Witness ==
    /\ alg = "__deepcopy__"
    /\ pc = "mutated"
    /\ \E e \in input.edges : e.s \in input.right /\ e.attr # NoAttributes
    /\ ~ SameGraph(W, input)

\* C14: extract_edge_induced_subgraph(G, p) returns a graph with the left
\* and right names of G, nodes without an edge included, whose edges are
\* exactly the edges of G for which p holds, each with its source,
\* terminal, direction, weight and attributes, reversed edges included.
C14_EdgeInducedSubgraph ==
    (alg = "extract_edge_induced_subgraph" /\ pc = "returned") =>
        /\ W.left = input.left
        /\ W.right = input.right
        /\ W.edges = {e \in input.edges : result[e]}

\* a reversed edge is kept, another edge is dropped, and a node that had
\* an edge has none
C14_Witness ==
    /\ alg = "extract_edge_induced_subgraph"
    /\ pc = "returned"
    /\ \E e \in W.edges : e.s \in W.right
    /\ W.edges # input.edges
    /\ \E n \in Nodes(W) : IncidentEdges(W, n) = {} /\ IncidentEdges(input, n) # {}

\* the messages of the exceptions __check_validity raises
StructuralErrors ==
    {"Error: Graph is not bipartite", "Error: Nodes have conflicting names",
     "Error: Multiple edges exist"}

\* C15: KuhnMunkres.apply(G) runs to completion with a matching for every
\* valid graph G, also when the balanced graph has no perfect matching: a
\* run never aborts with a fault other than a structural error
\* (bipartiteness violation, name collision, parallel edge).
C15_KuhnMunkresCompletes ==
    (alg = "KM" /\ pc = "raised") => error \in StructuralErrors

\* the residual graph of the matching (matched edges reversed) has a path
\* from an unmatched left node to an unmatched right node
HasResidualPath(G, matching) ==
    Z(G, matching) \cap (G.right \ {p[2] : p \in matching}) # {}

\* C16: compute_augmenting_path(G, M) returns the empty path, without
\* raising, exactly when the residual graph of M has no path from an
\* unmatched left node to an unmatched right node, and a non-empty path in
\* every other case; on the empty path apply stops and returns M unchanged.
C16_SearchStep ==
    (pc = "mcm") =>
        /\ pc' # "mcm" <=> ~ HasResidualPath(mcmG, M)
        /\ pc' # "mcm" => (M' = M /\ (alg = "MCM" => (pc' = "done" /\ result' = M)))
        /\ pc' = "mcm" => M' # M
        /\ error' = None

C16_EmptyPathExactlyWhenNoResidualPath == [][C16_SearchStep]_vars

\* apply has stopped on an empty path with a matching that is not empty
\* while a left node and a right node are still unmatched
C16_Witness ==
    /\ alg = "MCM"
    /\ pc = "done"
    /\ result # {}
    /\ input.left \ {p[1] : p \in result} # {}
    /\ input.right \ {p[2] : p \in result} # {}

Example == ExampleGraph(LeftPool[1], LeftPool[2], RightPool[1], RightPool[2])

AY_BX == {<<LeftPool[1], RightPool[2]>>, <<LeftPool[2], RightPool[1]>>}

AX_BY == {<<LeftPool[1], RightPool[1]>>, <<LeftPool[2], RightPool[2]>>}

\* C17 as stated: on the graph A-X 1, A-Y 2, B-X 3, B-Y 4 every run of
\* EdmondsKarp.apply returns exactly {(A,Y),(B,X)} and every run of
\* KuhnMunkres.apply returns exactly {(A,X),(B,Y)}.
C17_ExampleExactMatchings ==
    (input = Example /\ alg \in {"KM", "EK"}) =>
        /\ pc # "raised"
        /\ pc = "done" => result = (IF alg = "EK" THEN AY_BX ELSE AX_BY)

\* C17 amended: on that graph every run of EdmondsKarp.apply and every run
\* of KuhnMunkres.apply returns a perfect matching of total weight 5, which
\* is {(A,Y),(B,X)} or {(A,X),(B,Y)}.
C17_ExampleWeightFive ==
    (input = Example /\ alg \in {"KM", "EK"}) =>
        /\ pc # "raised"
        /\ pc = "done" => (result \in {AY_BX, AX_BY} /\ WeightSum(input, result) = 5)

\* EdmondsKarp.apply has returned the matching the claim gives to
\* KuhnMunkres.apply
C17_Witness ==
    /\ input = Example
    /\ alg = "EK"
    /\ pc = "done"
    /\ result = AX_BY

NonNegative(G) == \A e \in G.edges : e.w >= 0

LeastPerfectWeight(G) ==
    {WeightSum(G, m) : m \in {o \in PerfectMatchingsOf(G) :
        \A q \in PerfectMatchingsOf(G) : WeightSum(G, o) <= WeightSum(G, q)}}

C19_MatrixInvariants ==
    (alg = "AdjacencyMatrix" /\ pc = "ready") =>
        LET n == Len(caller.nodes)
        IN /\ \A i \in 1..n : \A j \in 1..n : caller.nodes[i] = caller.nodes[j] => i = j
           /\ Len(caller.adjacency_matrix) = n
           /\ \A i \in 1..n : Len(caller.adjacency_matrix[i]) = n
           /\ \A i \in 1..n : \A j \in 1..n :
                /\ caller.adjacency_matrix[i][j].s = caller.nodes[i]
                /\ caller.adjacency_matrix[i][j].t = caller.nodes[j]

\* add_edge has added both of its nodes to a matrix that had a node, and
\* the matrix holds the new edge and an edge set before it
C19_Witness ==
    /\ alg = "AdjacencyMatrix"
    /\ pc = "ready"
    /\ result.op = "add_edge"
    /\ Len(input.nodes) = 1
    /\ Len(caller.nodes) = 3
    /\ caller.adjacency_matrix[1][1].w = 1
    /\ caller.adjacency_matrix[2][3].w = 1

\* the steps of the loops of EdmondsKarp.apply
GrowTree == pc' = "ek_tree"

Relabel == pc = "ek_tree" /\ pc' = "ek_leaf"

LeafSelectionFails == AtLeafSelection /\ N \ T = {} /\ pc' = "raised"

C20_Step ==
    (alg = "EK" /\ PerfectMatchingsOf(input) # {}) =>
        /\ Relabel => /\ compute_joint_neighborhood(sub, S) = T
                      /\ N' \ T # {}
        /\ ~ LeafSelectionFails
        /\ <<pc, pc'>> \in {<<"start", "ek_outer">>, <<"ek_outer", "ek_tree">>, <<"ek_outer", "done">>,
                            <<"ek_tree", "ek_leaf">>, <<"ek_tree", "ek_tree">>, <<"ek_leaf", "ek_tree">>,
                            <<"ek_tree", "ek_outer">>, <<"ek_leaf", "ek_outer">>}

\* C20: on a balanced graph that has a perfect matching, every outer
\* iteration of EdmondsKarp.apply grows the tree, relabels only when the
\* neighbourhood of S in the equality subgraph equals T, finds after each
\* relabel a right node of the recomputed neighbourhood outside T, and so
\* never selects a leaf from an empty set.
C20_RelabelOnlyWhenStuck == [][C20_Step]_vars

\* the same with the neighbourhood as the loop holds it, computed for the
\* root alone or at the last relabel
C20_StepStale ==
    (alg = "EK" /\ PerfectMatchingsOf(input) # {}) =>
        /\ Relabel => /\ N = T
                      /\ N' \ T # {}
        /\ ~ LeafSelectionFails

C20_RelabelWhenStaleStuck == [][C20_StepStale]_vars


Augmentation == alg = "EK" /\ pc \in {"ek_tree", "ek_leaf"} /\ pc' = "ek_outer"

LeftOf(matching) == {p[1] : p \in matching}

RightOf(matching) == {p[2] : p \in matching}

C21_Step ==
    (alg = "EK" /\ PerfectMatchingsOf(input) # {}) =>
        /\ pc' # "raised"
        /\ M' # M => Augmentation
        /\ Augmentation =>
             /\ IsMatching(M')
             /\ M' \subseteq EdgePairs(W)
             /\ Cardinality(M') = Cardinality(M) + 1
             /\ SymmetricDifference(M, M') \subseteq EdgePairs(sub)
             /\ root \notin LeftOf(M)
             /\ LeftOf(M') = LeftOf(M) \cup {root}
             /\ \E leaf_node \in N \ T : /\ ~ LeafMatched(leaf_node)
                                         /\ leaf_node \notin RightOf(M)
                                         /\ RightOf(M') = RightOf(M) \cup {leaf_node}
        /\ pc' = "done" =>
             /\ Cardinality(M) = Cardinality(input.left)
             /\ result' \in PerfectMatchingsOf(input)

\* C21: on a balanced graph that has a perfect matching, every outer
\* iteration of EdmondsKarp.apply ends with an augmentation along a path of
\* the equality subgraph from the unmatched root to an unmatched right leaf,
\* after which the matching is a matching of the balanced graph with exactly
\* one pair more; the matching changes in no other step, so the loop ends
\* after as many iterations as a side has nodes, with a perfect matching.
C21_OnePairMorePerIteration == [][C21_Step]_vars

\* a 3 by 3 call has returned after an augmentation along a path through a
\* tree that had grown
C21_Witness ==
    /\ Returned("EK")
    /\ PerfectMatchingsOf(input) # {}
    /\ Cardinality(input.left) = MaxLeft
    /\ T # {}
    /\ result \in PerfectMatchingsOf(input)


MaxOf(numbers) == CHOOSE x \in numbers : \A y \in numbers : y <= x

\* C22: after the initial vertex labeling, whatever the order in which the
\* edges were visited, every edge has label(source) + label(terminal) >=
\* weight, every right node has label 0, and the label of every left node is
\* the maximum weight among its incident edges.
C22_InitialLabeling ==
    (alg = LABELING /\ pc = "done") =>
        /\ \A e \in get_edges(W) : Label(W, e.s) + Label(W, e.t) >= e.w
        /\ \A n \in W.right : Label(W, n) = 0
        /\ \A n \in W.left : IncidentEdges(W, n) # {} =>
               Label(W, n) = MaxOf({e.w : e \in IncidentEdges(W, n)})

\* what holds of the labeling in every order: it is feasible, right labels
\* are 0, a left label is the greatest incident weight or 0 when that is
\* negative, and it is the labeling EdmondsKarp.apply starts with
C22_LabelingNotBelowZero ==
    (alg = LABELING /\ pc = "done") =>
        /\ \A e \in get_edges(W) : Label(W, e.s) + Label(W, e.t) >= e.w
        /\ \A n \in W.right : Label(W, n) = 0
        /\ \A n \in W.left : Label(W, n) = MaxOf({0} \cup {e.w : e \in IncidentEdges(W, n)})
        /\ W = create_initial_vertex_labeling(input)


Feasible(G) == \A e \in G.edges : Label(G, e.s) + Label(G, e.t) >= e.w

DeltaOfTree ==
    MinOf({Label(W, e.s) + Label(W, e.t) - e.w :
               e \in {o \in W.edges : o.s \in S /\ o.t \in W.right /\ o.t \notin T}})

C23_Step ==
    alg = "EK" =>
        /\ Relabel =>
             /\ Nodes(W') = Nodes(W)
             /\ \A n \in Nodes(W) :
                  Label(W', n) = IF n \in S THEN Label(W, n) - DeltaOfTree
                                 ELSE IF n \in T THEN Label(W, n) + DeltaOfTree
                                 ELSE Label(W, n)
             /\ {[s |-> e.s, t |-> e.t, w |-> e.w] : e \in W'.edges}
                    = {[s |-> e.s, t |-> e.t, w |-> e.w] : e \in W.edges}
        /\ ~ Relabel /\ pc # "start" =>
             \A n \in Nodes(W) : Label(W', n) = Label(W, n)
        /\ pc' # "start" => Feasible(W')

\* C23: every relabel of EdmondsKarp.apply takes for delta the minimum of
\* label(source) + label(terminal) - weight over the edges from S to the
\* right nodes outside T, subtracts it from exactly the labels of S, adds it
\* to exactly the labels of T and changes no other label (no other step
\* changes a label), and the labeling is feasible in every state.
C23_RelabelKeepsFeasible == [][C23_Step]_vars

\* a relabel by a delta above 0 has raised the label of a right node of T
C23_Witness ==
    /\ alg = "EK"
    /\ pc = "ek_leaf"
    /\ T # {}
    /\ \E n \in T : Label(W, n) > 0
    /\ \E n \in S : Label(W, n) < MaxWeight


Covered(e) == Cardinality({e.s, e.t} \cap cover)

\* C24: a weight adjustment of KuhnMunkres adds delta to exactly the edges
\* with both endpoints in the cover, subtracts it from exactly the edges with
\* neither endpoint in the cover and leaves the edges with one covered
\* endpoint as they are, delta being the least weight among the edges with
\* neither endpoint in the cover; the graph passed in is not modified.
C24_AdjustWeights ==
    (alg = ADJUST_WEIGHTS /\ pc = "done") =>
        LET delta == MinOf({e.w : e \in {o \in input.edges : Covered(o) = 0}})
        IN /\ W.edges = {[e EXCEPT !.w = IF Covered(e) = 2 THEN e.w + delta
                                         ELSE IF Covered(e) = 0 THEN e.w - delta
                                         ELSE e.w] : e \in input.edges}
           /\ W.left = input.left
           /\ W.right = input.right
           /\ caller = input

\* an adjustment by a delta other than 0 of a graph that has edges of all
\* three kinds
C24_Witness ==
    /\ alg = ADJUST_WEIGHTS
    /\ pc = "done"
    /\ \A k \in 0..2 : \E e \in input.edges : Covered(e) = k
    /\ \A e \in input.edges : Covered(e) = 0 => e.w # 0


Smaller(a, b) == IF a <= b THEN a ELSE b

C25_Step ==
    (alg = "MCM" /\ pc = "mcm") =>
        /\ M' # M =>
             /\ pc' = "mcm"
             /\ M' \subseteq EdgePairs(input)
             /\ IsMatching(M')
             /\ Cardinality(M') = Cardinality(M) + 1
             /\ LeftOf(M) \subseteq LeftOf(M')
             /\ RightOf(M) \subseteq RightOf(M')
             /\ Cardinality(M') - Cardinality(input.initial_matching)
                    <= Smaller(Cardinality(input.left), Cardinality(input.right))
        /\ M' = M => pc' = "done" /\ result' = M

\* C25: in MaximumCardinalityMatching.apply started from a matching of G,
\* every iteration that finds a path leaves a matching of G (pairs that are
\* left-to-right edges of G, no endpoint shared) with exactly one pair more
\* that covers the nodes covered before, so the iterations number at most
\* min(|left|, |right|); the iteration that finds none returns the matching.
C25_AugmentKeepsMatching == [][C25_Step]_vars

\* apply has returned two pairs more than it was given, without a pair it
\* was given: a path that ran back through a matched edge was postprocessed
C25_Witness ==
    /\ alg = "MCM"
    /\ pc = "done"
    /\ Cardinality(result) = Cardinality(input.initial_matching) + 2
    /\ input.initial_matching \ result # {}


\* the number of edges of a shortest path of the arcs from a node of seen to
\* a node of target, breadth first; -1 when there is none
RECURSIVE FewestEdges(_, _, _, _)
FewestEdges(arcs, seen, target, k) ==
    IF seen \cap target # {} THEN k
    ELSE LET more == seen \cup {a[2] : a \in {b \in arcs : b[1] \in seen}}
         IN IF more = seen THEN -1 ELSE FewestEdges(arcs, more, target, k + 1)

ShortestAugmentingPath(G, matching) ==
    FewestEdges(Arcs(G, matching), G.left \ LeftOf(matching), G.right \ RightOf(matching), 0)

C26_Step ==
    (alg = "MCM" /\ pc = "mcm" /\ M' # M) =>
        Cardinality(SymmetricDifference(M, M')) = ShortestAugmentingPath(mcmG, M)

\* C26: whenever an augmenting path exists for the current matching,
\* compute_augmenting_path returns one of the fewest edges an augmenting path
\* for that matching can have, whatever order the nodes are queued in.
C26_ShortestAugmentingPath == [][C26_Step]_vars

\* what the search does return: an augmenting path, of no fewer edges
C26_StepSomePath ==
    (alg = "MCM" /\ pc = "mcm" /\ M' # M) =>
        /\ ShortestAugmentingPath(mcmG, M) >= 1
        /\ Cardinality(SymmetricDifference(M, M')) >= ShortestAugmentingPath(mcmG, M)

C26_SomeAugmentingPath == [][C26_StepSomePath]_vars


(***************************************************************************)
(* Node and Edge objects by reference.  A Node object is a name and a      *)
(* reference number: the objects of one name are equal (Node.__eq__) and   *)
(* are different objects, each with its own outgoing and incoming set.     *)
(* An Edge object holds its source and terminal Node objects.  caller is   *)
(* the BipartiteGraph: its two node sets and the edge sets of every Node   *)
(* object, of the graph or not.                                            *)
(***************************************************************************)
OBJECTS == "Node objects"

MaxRef == 1

\* add_edge is called while fewer Edge objects than this exist
MaxEdgeObjects == 3

NodeObject(name, ref) == [name |-> name, ref |-> ref]

NodeObjects == {NodeObject(name, ref) : name \in NodePool, ref \in 0..MaxRef}

EdgeObject(weight, source_node, terminal_node) ==
    [w |-> weight, s |-> source_node, t |-> terminal_node]

\* Node.__eq__: the names are equal
NodeEq(a, b) == a.name = b.name

\* Edge.__eq__: weight and both ends are equal (the attributes are empty here)
EdgeEq(a, b) == a.w = b.w /\ NodeEq(a.s, b.s) /\ NodeEq(a.t, b.t)

\* `node in nodeset` and `edge in edgeset` of a python set
HoldsNode(nodeset, node) == \E o \in nodeset : NodeEq(o, node)

HoldsEdge(edgeset, edge) == \E o \in edgeset : EdgeEq(o, edge)

\* set.add: an element equal to one of the set is not added
NodeSetAdd(nodeset, node) == IF HoldsNode(nodeset, node) THEN nodeset ELSE nodeset \cup {node}

add_outgoing_edge(edgeset, edge) == IF HoldsEdge(edgeset, edge) THEN edgeset ELSE edgeset \cup {edge}

add_incoming_edge(edgeset, edge) == IF HoldsEdge(edgeset, edge) THEN edgeset ELSE edgeset \cup {edge}

remove_outgoing_edge(edgeset, terminal_node_name) ==
    {edge \in edgeset : edge.t.name # terminal_node_name}

remove_incoming_edge(edgeset, source_node_name) ==
    {edge \in edgeset : edge.s.name # source_node_name}

NamesOf(nodeset) == {node.name : node \in nodeset}

NoObjects ==
    [left_nodeset |-> {}, right_nodeset |-> {},
     outgoing_edges |-> [node \in NodeObjects |-> {}],
     incoming_edges |-> [node \in NodeObjects |-> {}]]

\* get_edges as a list: one entry for every edge of every set of a left node
ObjectEdgeList(H) ==
    UNION {{<<node, "outgoing", edge>> : edge \in H.outgoing_edges[node]}
               \cup {<<node, "incoming", edge>> : edge \in H.incoming_edges[node]} :
           node \in H.left_nodeset}

object_is_bipartite(H) ==
    /\ NamesOf(H.left_nodeset) \cap NamesOf(H.right_nodeset) = {}
    /\ \A node \in H.left_nodeset :
         /\ \A edge \in H.outgoing_edges[node] :
              ~(HoldsNode(H.right_nodeset, edge.s) \/ HoldsNode(H.left_nodeset, edge.t))
         /\ \A edge \in H.incoming_edges[node] :
              ~(HoldsNode(H.left_nodeset, edge.s) \/ HoldsNode(H.right_nodeset, edge.t))
    /\ \A node \in H.right_nodeset :
         /\ \A edge \in H.incoming_edges[node] :
              ~(HoldsNode(H.right_nodeset, edge.s) \/ HoldsNode(H.left_nodeset, edge.t))
         /\ \A edge \in H.outgoing_edges[node] :
              ~(HoldsNode(H.left_nodeset, edge.s) \/ HoldsNode(H.right_nodeset, edge.t))

object_has_conflicting_node_names(H) ==
    Cardinality(NamesOf(H.left_nodeset) \cup NamesOf(H.right_nodeset))
        # Cardinality(H.left_nodeset) + Cardinality(H.right_nodeset)

object_has_multiple_edges(H) ==
    Cardinality(ObjectEdgeList(H))
        # Cardinality({<<entry[3].s.name, entry[3].t.name>> : entry \in ObjectEdgeList(H)})

object_check_validity(H) ==
    IF ~object_is_bipartite(H) THEN "Error: Graph is not bipartite"
    ELSE IF object_has_conflicting_node_names(H) THEN "Error: Nodes have conflicting names"
    ELSE IF object_has_multiple_edges(H) THEN "Error: Multiple edges exist"
    ELSE None

\* the edge is added to the sets of the two Node objects handed in
WiredObjects(H, weight, source_node, terminal_node) ==
    LET edge == EdgeObject(weight, source_node, terminal_node)
        out == [H.outgoing_edges EXCEPT ![source_node] = add_outgoing_edge(@, edge)]
        inc == [H.incoming_edges EXCEPT ![terminal_node] = add_incoming_edge(@, edge)]
    IN [H EXCEPT !.outgoing_edges = out, !.incoming_edges = inc]

\* add_edge on Node objects: the graph each step leaves and what its check raises
ObjectAddEdgeSteps(H, weight, source_node, terminal_node) ==
    LET adds_left == source_node.name \notin NamesOf(H.left_nodeset)
        H1 == IF adds_left THEN [H EXCEPT !.left_nodeset = NodeSetAdd(@, source_node)] ELSE H
        e1 == IF adds_left THEN object_check_validity(H1) ELSE None
        adds_right == terminal_node.name \notin NamesOf(H1.right_nodeset)
        H2 == IF adds_right THEN [H1 EXCEPT !.right_nodeset = NodeSetAdd(@, terminal_node)] ELSE H1
        e2 == IF adds_right THEN object_check_validity(H2) ELSE None
        H3 == WiredObjects(H2, weight, source_node, terminal_node)
        e3 == object_check_validity(H3)
    IN IF e1 # None THEN [graph |-> H1, error |-> e1]
       ELSE IF e2 # None THEN [graph |-> H2, error |-> e2]
       ELSE [graph |-> H3, error |-> e3]

\* search_node_names(nodeset, name).pop(): None stands for the KeyError of
\* a pop from the empty set
FoundNode(nodeset, target_name) ==
    IF target_name \in NamesOf(nodeset)
    THEN CHOOSE node \in nodeset : node.name = target_name
    ELSE None

\* extract_edge_induced_subgraph on Node objects: new objects of the same
\* names, and a new edge for every outgoing edge of a graph node that the
\* predicate keeps, between the copies found by name
object_extract_edge_induced_subgraph(H, predicate) ==
    LET duplicate(node) == NodeObject(node.name, 0)
        left_nodeset == {duplicate(node) : node \in H.left_nodeset}
        right_nodeset == {duplicate(node) : node \in H.right_nodeset}
        copies == left_nodeset \cup right_nodeset
        kept == UNION {{<<node, edge>> : edge \in {o \in H.outgoing_edges[node] : predicate[o]}} :
                       node \in H.left_nodeset \cup H.right_nodeset}
        copy_edge(entry) == EdgeObject(entry[2].w, FoundNode(copies, entry[1].name),
                                       FoundNode(copies, entry[2].t.name))
        G_prime == [left_nodeset |-> left_nodeset, right_nodeset |-> right_nodeset,
                    outgoing_edges |-> [node \in NodeObjects |->
                        {copy_edge(entry) : entry \in {k \in kept : FoundNode(copies, k[1].name) = node}}],
                    incoming_edges |-> [node \in NodeObjects |->
                        {copy_edge(entry) : entry \in {k \in kept : FoundNode(copies, k[2].t.name) = node}}]]
    IN IF \E entry \in kept : entry[2].t.name \notin NamesOf(copies)
       THEN [graph |-> H, error |-> "KeyError"]
       ELSE [graph |-> G_prime, error |-> object_check_validity(G_prime)]

object_deepcopy(H) ==
    object_extract_edge_induced_subgraph(H,
        [edge \in UNION {H.outgoing_edges[node] : node \in NodeObjects} |-> TRUE])

\* modify_graph with reverse_matched_directed_edge on Node objects: in a
\* deep copy, every edge from a matched source to its matched terminal
\* leaves the outgoing set of the source and the incoming set of the
\* terminal, enters the other two sets, and has its ends exchanged
object_modify_graph(H, matching) ==
    LET copy == object_deepcopy(H)
        G_prime == copy.graph
        matched == UNION {{edge \in G_prime.outgoing_edges[FoundNode(G_prime.left_nodeset, pair[1])] :
                               edge.t.name = pair[2]} : pair \in matching}
        reversed(edge) == EdgeObject(edge.w, edge.t, edge.s)
        outgoing(node) ==
            LET removed == IF \E pair \in matching : FoundNode(G_prime.left_nodeset, pair[1]) = node
                           THEN remove_outgoing_edge(G_prime.outgoing_edges[node],
                                    (CHOOSE pair \in matching : pair[1] = node.name)[2])
                           ELSE G_prime.outgoing_edges[node]
            IN removed \cup {reversed(edge) : edge \in {m \in matched : m.t = node}}
        incoming(node) ==
            LET removed == IF \E pair \in matching : FoundNode(G_prime.right_nodeset, pair[2]) = node
                           THEN remove_incoming_edge(G_prime.incoming_edges[node],
                                    (CHOOSE pair \in matching : pair[2] = node.name)[1])
                           ELSE G_prime.incoming_edges[node]
            IN removed \cup {reversed(edge) : edge \in {m \in matched : m.s = node}}
    IN IF copy.error # None THEN copy
       ELSE [graph |-> [G_prime EXCEPT !.outgoing_edges = [node \in NodeObjects |-> outgoing(node)],
                                       !.incoming_edges = [node \in NodeObjects |-> incoming(node)]],
             error |-> None]

\* the matchings handed to modify_graph: pairs of names joined by an edge
\* out of a left node, no name in two pairs
ObjectMatchings(H) ==
    LET pairs == {<<entry[1].name, entry[3].t.name>> :
                      entry \in {k \in ObjectEdgeList(H) : k[2] = "outgoing"}}
    IN {matching \in SUBSET pairs :
            \A p \in matching : \A q \in matching : p # q => (p[1] # q[1] /\ p[2] # q[2])}

\* every Edge object: those of the sets of every Node object
EdgeObjects(H) ==
    UNION {H.outgoing_edges[node] \cup H.incoming_edges[node] : node \in NodeObjects}

InitObjects ==
    /\ alg = OBJECTS
    /\ pc = "ready"
    /\ caller = NoObjects
    /\ input = NoObjects
    /\ W = EmptyGraph /\ sub = EmptyGraph /\ mcmG = EmptyGraph
    /\ M = {} /\ cover = {} /\ root = None /\ S = {} /\ T = {} /\ N = {}
    /\ result = [op |-> None]
    /\ error = None

ObjectCalled(call, after) ==
    /\ caller' = after.graph
    /\ result' = call
    /\ error' = after.error
    /\ pc' = IF after.error = None THEN "ready" ELSE "raised"
    /\ UNCHANGED <<alg, input, W, sub, mcmG, M, cover, root, S, T, N>>

\* the Node objects a caller can hand in: an object of the graph, a new
\* object of a name the graph does not hold, or another object of a name
\* the graph holds
HandedIn(H) ==
    {node \in NodeObjects :
        \/ node \in H.left_nodeset \cup H.right_nodeset
        \/ node.ref = 0 /\ ~HoldsNode(H.left_nodeset \cup H.right_nodeset, node)
        \/ node.ref # 0 /\ HoldsNode(H.left_nodeset \cup H.right_nodeset, node)}

ObjectAddEdge ==
    /\ alg = OBJECTS
    /\ pc = "ready"
    /\ Cardinality(EdgeObjects(caller)) < MaxEdgeObjects
    /\ \E weight \in 0..MaxWeight : \E source_node \in HandedIn(caller) :
         \E terminal_node \in HandedIn(caller) :
           ObjectCalled([op |-> "add_edge", weight |-> weight,
                         source_node |-> source_node, terminal_node |-> terminal_node],
                        ObjectAddEdgeSteps(caller, weight, source_node, terminal_node))

ObjectDeepCopy ==
    /\ alg = OBJECTS
    /\ pc = "ready"
    /\ ObjectCalled([op |-> "__deepcopy__"], object_deepcopy(caller))

ObjectExtract ==
    /\ alg = OBJECTS
    /\ pc = "ready"
    /\ \E weight \in 0..MaxWeight :
         ObjectCalled([op |-> "extract_edge_induced_subgraph", weight |-> weight],
                      object_extract_edge_induced_subgraph(caller,
                          [edge \in UNION {caller.outgoing_edges[node] : node \in NodeObjects}
                               |-> edge.w = weight]))

ObjectReverse ==
    /\ alg = OBJECTS
    /\ pc = "ready"
    /\ \E matching \in ObjectMatchings(caller) :
         ObjectCalled([op |-> "modify_graph", matching |-> matching],
                      object_modify_graph(caller, matching))

NextObjects == ObjectAddEdge \/ ObjectDeepCopy \/ ObjectExtract \/ ObjectReverse

SpecObjects == InitObjects /\ [][NextObjects]_vars


(***************************************************************************)
(* C27: node edge sets agree with the edges of the graph.                  *)
(***************************************************************************)
GraphNodes(H) == H.left_nodeset \cup H.right_nodeset

\* the edges stored on the graph: those of the sets of its nodes
StoredEdges(H) ==
    UNION {H.outgoing_edges[node] \cup H.incoming_edges[node] : node \in GraphNodes(H)}

EdgeSetsAgree(H) ==
    \A node \in GraphNodes(H) : \A edge \in StoredEdges(H) :
        /\ HoldsEdge(H.outgoing_edges[node], edge) <=> NodeEq(edge.s, node)
        /\ HoldsEdge(H.incoming_edges[node], edge) <=> NodeEq(edge.t, node)

C27_OwnObjectsAgree ==
    (alg = OBJECTS /\ pc = "ready"
        /\ \A edge \in StoredEdges(caller) : {edge.s, edge.t} \subseteq GraphNodes(caller))
    => EdgeSetsAgree(caller)

C27_NoKeyError == alg = OBJECTS => error # "KeyError"

C27_Witness ==
    /\ alg = OBJECTS /\ pc = "ready"
    /\ result.op = "modify_graph" /\ result.matching # {}
    /\ EdgeSetsAgree(caller)


(***************************************************************************)
(* C28: the weights of the working graph of KuhnMunkres.apply.             *)
(***************************************************************************)
InKuhnMunkresLoop == alg = "KM" /\ pc \notin {"start", "raised"}

AtAdjustment == alg = "KM" /\ pc = "km_check" /\ ~ is_perfect(W, M)

\* C28: on a graph with a perfect matching, every weight of the working
\* graph is at least 0 after the row and column reduction and after every
\* adjustment, and every adjustment has an uncovered edge and computes a
\* delta above 0.
C28_WeightsNotNegativeDeltaPositive ==
    PerfectMatchingsOf(input) # {} =>
        /\ InKuhnMunkresLoop => \A e \in W.edges : e.w >= 0
        /\ AtAdjustment =>
             /\ ~ AdjustRaises(W, MinimumVertexCover(sub, M))
             /\ Delta(W, MinimumVertexCover(sub, M)) > 0

\* an adjustment has been made on a graph that came with a negative weight
C28_Witness ==
    /\ alg = "KM" /\ pc = "km_loop" /\ cover # {}
    /\ PerfectMatchingsOf(input) # {}
    /\ \E e \in input.edges : e.w < 0
    /\ \E e \in W.edges : e.w > 0


(***************************************************************************)
(* C29: the matching KuhnMunkres.apply carries from one iteration to the   *)
(* next.                                                                   *)
(***************************************************************************)
\* the head of an iteration: the zero-weight subgraph is extracted and
\* MaximumCardinalityMatching.apply is called with the matching so far
SeedHandedOver == alg = "KM" /\ pc = "km_loop" /\ pc' = "mcm"

C29_Step ==
    /\ SeedHandedOver =>
         /\ sub' = extract_zero_weight_subgraph(W)
         /\ M' = M
         /\ M \subseteq EdgePairs(sub')
         /\ IsMatching(M)
    /\ alg = "KM" => Cardinality(M') >= Cardinality(M)

\* C29: at the head of every iteration of KuhnMunkres.apply every pair of
\* the matching carried over is an edge of the zero-weight subgraph just
\* extracted, so the seed is a matching of that subgraph, and the matching
\* never gets smaller from one step to the next.
C29_SeedIsMatchingOfSubgraph == [][C29_Step]_vars

\* an iteration after the first has started with pairs carried over
C29_Witness ==
    /\ alg = "KM" /\ pc = "mcm" /\ cover # {}
    /\ M # {} /\ M \subseteq EdgePairs(sub)
    /\ ~ is_perfect(W, M)
    /\ mcmG.edges # {}


(***************************************************************************)
(* C30: the graph after a call of add_left_node, add_right_node or         *)
(* add_edge has raised.                                                    *)
(***************************************************************************)
MutatorRaised ==
    /\ alg = "BipartiteGraph" /\ pc = "raised"
    /\ result.op \in {"add_left_node", "add_right_node", "add_edge"}

\* C30: when add_left_node, add_right_node or add_edge raises, the graph is
\* as it was before the call: the same nodes on either side and the same
\* edges in the sets of every node.
C30_RaiseLeavesGraphAsItWas == MutatorRaised => caller = input

\* what holds: a call that raises has changed the graph before, and the
\* graph it leaves fails the check that raised
C30_RaiseLeavesInvalidGraph ==
    MutatorRaised => (caller # input /\ check_validity(caller) = error /\ error # None)

====
